---- MODULE Spec2Model ----
(***************************************************************************)
(* The in-memory retrieval core of src/useGemini.ts: class VectorStore.     *)
(*                                                                         *)
(* One VectorStore instance is modelled.  create() is an async method: it  *)
(* runs synchronously up to its first await, and is resumed when the       *)
(* Promise.all over the current batch of embedding calls settles.  The     *)
(* embedding function is an external collaborator: each call it receives   *)
(* settles on its own, in any order, with a vector or with a rejection.    *)
(* search() is an async method too: it suspends once, at the await of the  *)
(* query embedding, and ranks the store when it resumes.  Spec follows     *)
(* create, SearchSpec follows searches on a built store, and PureSpec      *)
(* follows one call of chunkText or of cosineSimilarity.                   *)
(*                                                                         *)
(* Strings.  A JavaScript string is held as its run-length encoding: a     *)
(* sequence of runs [c |-> character, n |-> repeat count] with n > 0 and   *)
(* different characters in adjacent runs.  The encoding is canonical, so   *)
(* two strings are equal exactly when their encodings are equal.           *)
(***************************************************************************)
EXTENDS Integers, Sequences, FiniteSets, TLC

\* ------------------------------------------------------------------------
\* Bounds of the model
\* ------------------------------------------------------------------------

\* longest document handed to create, counted in strides of the chunker
MaxTextStrides == 11

\* number of create calls made on the instance, one after the other
MaxCreates == 2

\* largest topK handed to search
MaxTopK == 3

\* longest vector handed to cosineSimilarity on its own
MaxDim == 2

\* longest text handed to chunkText on its own, in characters
MaxPlainLen == 6

\* largest chunkSize handed to chunkText on its own
MaxChunkSize == 3

\* largest number of toggleConversation calls
MaxToggles == 3

\* ------------------------------------------------------------------------
\* Program constants
\* ------------------------------------------------------------------------

\* chunkText(text, chunkSize = 1000, ...)
DefaultChunkSize == 1000

\* chunkText(text, ..., overlap = 200)
DefaultOverlap == 200

\* const batchSize = 5;
batchSize == 5

\* search(query, embeddingFn, topK = 3)
DefaultTopK == 3

\* ------------------------------------------------------------------------
\* Arithmetic helpers
\* ------------------------------------------------------------------------

\* Math.min on two integers
MathMin(a, b) == IF a < b THEN a ELSE b

\* Math.round((p / n) * 100) for integers 0 <= p, 0 < n: the nearest
\* integer, a tie going up (Math.round rounds half towards +Infinity).
\* floor(100p/n + 1/2) = floor((200p + n) / 2n).
MathRoundPercent(p, n) == (200 * p + n) \div (2 * n)

\* ------------------------------------------------------------------------
\* Strings (run-length encoded)
\* ------------------------------------------------------------------------

RECURSIVE StrLenFrom(_, _)
StrLenFrom(s, k) == IF k > Len(s) THEN 0 ELSE s[k].n + StrLenFrom(s, k + 1)

\* text.length
StrLen(s) == StrLenFrom(s, 1)

RECURSIVE SliceRuns(_, _, _, _, _)
\* the part of runs k, k+1, ... of s inside [from, to), run k starting at
\* character offset off: every run is cut down to its part inside the
\* range and the empty parts are dropped
SliceRuns(s, k, off, from, to) ==
    IF k > Len(s) \/ off >= to
    THEN <<>>
    ELSE LET lo == IF off > from THEN off ELSE from
             hi == MathMin(off + s[k].n, to)
             rest == SliceRuns(s, k + 1, off + s[k].n, from, to)
         IN  IF hi > lo THEN <<[c |-> s[k].c, n |-> hi - lo]>> \o rest ELSE rest

\* text.slice(from, to) for 0 <= from <= to <= text.length
StrSlice(s, from, to) == SliceRuns(s, 1, 0, from, to)

\* ------------------------------------------------------------------------
\* chunkText
\* ------------------------------------------------------------------------

RECURSIVE chunkLoopNoBreakMut(_, _, _, _, _)
\* the loop without its break: it goes on until i reaches text.length
chunkLoopNoBreakMut(text, chunkSize, overlap, offset, pushed) ==
    IF offset < StrLen(text)
    THEN chunkLoopNoBreakMut(text, chunkSize, overlap, offset + chunkSize - overlap,
             Append(pushed, StrSlice(text, offset,
                                     MathMin(offset + chunkSize, StrLen(text)))))
    ELSE pushed

RECURSIVE chunkLoopInclusiveNoBreakMut(_, _, _, _, _)
\* the loop without its break and with i <= text.length as its condition
chunkLoopInclusiveNoBreakMut(text, chunkSize, overlap, offset, pushed) ==
    IF offset <= StrLen(text)
    THEN chunkLoopInclusiveNoBreakMut(text, chunkSize, overlap,
             offset + chunkSize - overlap,
             Append(pushed, StrSlice(text, offset,
                                     MathMin(offset + chunkSize, StrLen(text)))))
    ELSE pushed

RECURSIVE chunkLoop(_, _, _, _, _)
\* the while loop of chunkText, entered with its loop variable i at offset
\* and the chunks pushed so far in pushed
chunkLoop(text, chunkSize, overlap, offset, pushed) ==
    LET length == StrLen(text)
        end == MathMin(offset + chunkSize, length)
        next == Append(pushed, StrSlice(text, offset, end))
    IN  IF offset < length
        THEN IF end = length
             THEN next
             ELSE chunkLoop(text, chunkSize, overlap, offset + chunkSize - overlap, next)
        ELSE pushed

\* a character is skipped between one window and the next
chunkTextGapMut(text, chunkSize, overlap) ==
    chunkLoop(text, chunkSize, 0 - 1, 0, <<>>)

\* the windows are taken without overlap
chunkTextNoOverlapMut(text, chunkSize, overlap) ==
    chunkLoop(text, chunkSize, 0, 0, <<>>)

chunkText(text, chunkSize, overlap) == chunkLoop(text, chunkSize, overlap, 0, <<>>)

\* ------------------------------------------------------------------------
\* Inputs
\* ------------------------------------------------------------------------

\* characters the documents are written in
Letters == <<"a", "b", "c">>

\* A document of k strides: stride j (0-based) repeats Letters[j mod 3], so
\* neighbouring chunks differ and chunks three strides apart are equal.
MkText(k) ==
    [j \in 1..k |-> [c |-> Letters[((j - 1) % Len(Letters)) + 1],
                     n |-> DefaultChunkSize - DefaultOverlap]]

Texts == {MkText(k) : k \in 0..MaxTextStrides}

\* create chunks without overlap
chunkTextDefaultsNoOverlapMut ==
    [text \in Texts |-> chunkText(text, DefaultChunkSize, 0)]

\* this.chunkText(text), chunkSize and overlap taking their defaults,
\* tabulated over the documents
chunkTextDefaults ==
    [text \in Texts |-> chunkText(text, DefaultChunkSize, DefaultOverlap)]

\* The embedding functions handed to create and to search.  Each is a
\* function of the text alone: "byLetter" returns a one-hot vector keyed by
\* the first character of the text, "constant" returns the same vector for
\* every text, "letters" marks the characters that occur in the text (and
\* so returns the zero vector for the empty text).
EmbeddingFns == {"byLetter", "constant", "letters"}

\* the vector embeddingFn(text) is fulfilled with, when it is fulfilled
Embed(fn, text) ==
    IF fn = "letters"
    THEN [d \in 1..Len(Letters) |->
             IF \E k \in 1..Len(text) : text[k].c = Letters[d] THEN 1 ELSE 0]
    ELSE IF fn = "constant" \/ text = <<>>
    THEN <<1, 1, 1>>
    ELSE [d \in 1..Len(Letters) |-> IF Letters[d] = text[1].c THEN 1 ELSE 0]

\* value of a promise that carries no vector (not issued, pending, rejected)
NoValue == <<>>

\* ------------------------------------------------------------------------
\* Promises
\* ------------------------------------------------------------------------

Unissued == [st |-> "unissued", val |-> NoValue]
Pending == [st |-> "pending", val |-> NoValue]
Fulfilled(e) == [st |-> "fulfilled", val |-> e]
Rejected == [st |-> "rejected", val |-> NoValue]

\* a combinator that waits for every promise and overlooks rejections
PromiseAllSettledMut(ps) ==
    IF \A k \in 1..Len(ps) : ps[k].st \in {"fulfilled", "rejected"}
    THEN "fulfilled" ELSE "pending"

\* a combinator that is satisfied by the first promise to fulfil
PromiseAnyMut(ps) ==
    IF \E k \in 1..Len(ps) : ps[k].st = "rejected" THEN "rejected"
    ELSE IF \E k \in 1..Len(ps) : ps[k].st = "fulfilled" THEN "fulfilled"
    ELSE "pending"

\* a combinator whose promise never settles
PromiseAllNeverSettlesMut(ps) == "pending"

\* State of Promise.all(ps): rejected as soon as one element is rejected,
\* fulfilled once every element is fulfilled.
PromiseAll(ps) ==
    IF \E k \in 1..Len(ps) : ps[k].st = "rejected" THEN "rejected"
    ELSE IF \A k \in 1..Len(ps) : ps[k].st = "fulfilled" THEN "fulfilled"
    ELSE "pending"

\* ------------------------------------------------------------------------
\* Numbers of cosineSimilarity
\* ------------------------------------------------------------------------

\* A JavaScript number that is an integer or NaN.  The components of the
\* vectors are integers; NaN comes from reading past the end of a vector
\* (undefined) and using the value in arithmetic.
Num(v) == [nan |-> FALSE, v |-> v]
NaN == [nan |-> TRUE, v |-> 0]

\* vec[k] as an operand of * (k 1-based): undefined, read past the end of
\* the array, is converted to NaN
Elem(vec, k) == IF k <= Len(vec) THEN Num(vec[k]) ELSE NaN

\* x * y and x + y: NaN as soon as an operand is NaN
NumMul(x, y) == IF x.nan \/ y.nan THEN NaN ELSE Num(x.v * y.v)
NumAdd(x, y) == IF x.nan \/ y.nan THEN NaN ELSE Num(x.v + y.v)

\* x === 0: false for NaN
IsZero(x) == ~ x.nan /\ x.v = 0

\* The value cosineSimilarity returns: NaN, or the real number
\* num / sqrt(den2) with den2 > 0.  For vectors with components in
\* {0, 1} of one length the double the code computes is a function of the
\* triple (dotProduct, normA, normB) of exact integers, and two triples
\* with the same normA give the same real exactly when they are the same
\* triple, so comparing the reals compares the doubles.
Similarity(num, den2) == [nan |-> FALSE, num |-> num, den2 |-> den2]
SimilarityNaN == [nan |-> TRUE, num |-> 0, den2 |-> 1]

\* the literal 0 of "return 0"
SimilarityZero == Similarity(0, 1)

\* sign(x) * x * x: x -> sign(x) * x^2 is increasing, so it orders
\* num / sqrt(den2) as num|num| / den2 is ordered
SignedSquare(x) == IF x < 0 THEN 0 - x * x ELSE x * x

\* the sign of x - y for two similarities that are not NaN
SimilarityCompare(x, y) ==
    LET l == SignedSquare(x.num) * y.den2
        r == SignedSquare(y.num) * x.den2
    IN  IF l < r THEN 0 - 1 ELSE IF l > r THEN 1 ELSE 0

\* ------------------------------------------------------------------------
\* cosineSimilarity
\* ------------------------------------------------------------------------

RECURSIVE cosineLoop(_, _, _, _)
\* the for loop of cosineSimilarity from index k (1-based) on, acc holding
\* dotProduct, normA and normB; it runs over the indexes of vecA
cosineLoop(vecA, vecB, k, acc) ==
    IF k > Len(vecA)
    THEN acc
    ELSE cosineLoop(vecA, vecB, k + 1,
            [dotProduct |-> NumAdd(acc.dotProduct,
                                   NumMul(Elem(vecA, k), Elem(vecB, k))),
             normA |-> NumAdd(acc.normA, NumMul(Elem(vecA, k), Elem(vecA, k))),
             normB |-> NumAdd(acc.normB, NumMul(Elem(vecB, k), Elem(vecB, k)))])

\* dotProduct / (Math.sqrt(normA) * Math.sqrt(normB))
Quotient(acc) ==
    IF acc.dotProduct.nan \/ acc.normA.nan \/ acc.normB.nan
       \/ acc.normA.v * acc.normB.v = 0
    THEN SimilarityNaN
    ELSE Similarity(acc.dotProduct.v, acc.normA.v * acc.normB.v)

\* the quotient is returned whatever the norms are
cosineSimilarityNoGuardMut(vecA, vecB) ==
    Quotient(cosineLoop(vecA, vecB, 1,
                [dotProduct |-> Num(0), normA |-> Num(0), normB |-> Num(0)]))

cosineSimilarity(vecA, vecB) ==
    LET acc == cosineLoop(vecA, vecB, 1,
                   [dotProduct |-> Num(0), normA |-> Num(0), normB |-> Num(0)])
    IN  IF IsZero(acc.normA) \/ IsZero(acc.normB)
        THEN SimilarityZero
        ELSE Quotient(acc)

\* ------------------------------------------------------------------------
\* State
\* ------------------------------------------------------------------------

VARIABLES
    store,            \* this.store: sequence of [chunk, embedding]
    callNo,           \* number of create calls made so far on the instance
    pc,               \* where the body of the latest create call is:
                      \*   "idle" (never called), "awaiting" (suspended at
                      \*   the await), "returned", "threw"
    chunks,           \* const chunks of the latest create call
    i,                \* loop variable i of the latest create call
    embeddingFn,      \* the embedding function of the latest create call
    embedCalls,       \* embedCalls[j]: the promise embeddingFn returned for
                      \*   chunks[j] in the latest create call
    onProgress,       \* TRUE when the latest create call was given a callback
    progress,         \* the arguments of the onProgress invocations so far
    progressStoreLen, \* this.store.length at each onProgress invocation
    replaced,         \* TRUE when the latest create call found in the store
                      \*   the entries of an earlier create that had returned
    searches,         \* searches[s]: the latest search call of caller s
    call,             \* a call of chunkText or cosineSimilarity on its own
    ret,              \* what that call returned
    loop,             \* a chunkText call run one iteration at a time
    \* the state of useChat
    activeMode,       \* the learning mode selected
    vectorStore,      \* the instance published for the Knowledge Base, or
                      \*   NoInstance for null
    qaDocument,       \* [store, fullText] published for Q&A, NoDocument
                      \*   for null
    messagesByMode,   \* per mode, whether it has a list and the list
    isProcessingFile,
    fileProcessingProgress, \* [set, percentage]; set FALSE for null
    isLoading,
    uploads,          \* uploads[u]: where the handleFileUpload call u is
    instances,        \* instances[u]: the VectorStore constructed by upload u
    send,             \* where the sendMessage call is
    \* the state of useVoiceAssistant
    conversationState,
    transcript,       \* sequence of [speaker, text]
    utteranceQueue,   \* utteranceQueue.current: the sentences not yet handed
                      \*   to speech synthesis
    speechSynthesis,  \* the utterances speech synthesis holds, the first
                      \*   being spoken, and what it was handed
    recognition,      \* where the speech recognition session is
    responses,        \* the processAndRespond calls awaiting the model
    toggles           \* the toggleConversation calls made and what the
                      \*   last one did

\* the state of one VectorStore instance and of the stand-alone calls
storeVars == <<store, callNo, pc, chunks, i, embeddingFn, embedCalls,
               onProgress, progress, progressStoreLen, replaced, searches,
               call, ret, loop>>

chatVars == <<activeMode, vectorStore, qaDocument, messagesByMode,
              isProcessingFile, fileProcessingProgress, isLoading, uploads,
              instances, send>>

vars == <<store, callNo, pc, chunks, i, embeddingFn, embedCalls, onProgress,
          progress, progressStoreLen, replaced, searches, call, ret, loop,
          activeMode, vectorStore, qaDocument, messagesByMode,
          isProcessingFile, fileProcessingProgress, isLoading, uploads,
          instances, send,
          conversationState, transcript, utteranceQueue, speechSynthesis,
          recognition, responses, toggles>>

voiceVars == <<conversationState, transcript, utteranceQueue, speechSynthesis,
               recognition, responses, toggles>>

\* no chunkText call is being stepped through
LoopIdle ==
    [pc |-> "idle", caller |-> "none", text |-> <<>>, chunkSize |-> 1,
     overlap |-> 0, offset |-> 0, pushed |-> <<>>]

\* ------------------------------------------------------------------------
\* create
\* ------------------------------------------------------------------------

\* the body treated as finished while it is still suspended at its await
CreatePromiseDetachedMut(p) ==
    CASE p = "idle" -> "none"
      [] p = "awaiting" -> "fulfilled"
      [] p = "returned" -> "fulfilled"
      [] p = "threw" -> "rejected"

\* State of the promise an async method returns: pending while the body is
\* suspended, fulfilled when it returns, rejected when it throws.
CreatePromise(p) ==
    CASE p = "idle" -> "none"
      [] p = "awaiting" -> "pending"
      [] p = "returned" -> "fulfilled"
      [] p = "threw" -> "rejected"

\* chunks.slice(from, from + batchSize), from 0-based
BatchChunks(cs, from) == SubSeq(cs, from + 1, MathMin(from + batchSize, Len(cs)))

\* the promises batchChunks.map(chunk => embeddingFn(chunk)) produced
BatchPromises(calls, from) ==
    SubSeq(calls, from + 1, MathMin(from + batchSize, Len(calls)))

\* two batches are issued at a time
IssueBatchDoubleMut(calls, from) ==
    [j \in 1..Len(calls) |->
        IF j > from /\ j <= from + 2 * batchSize /\ calls[j].st = "unissued"
        THEN Pending ELSE calls[j]]

\* batchChunks.map(...): embeddingFn is called once for every chunk of the
\* batch that starts at from
IssueBatch(calls, from) ==
    [j \in 1..Len(calls) |->
        IF j > from /\ j <= from + batchSize THEN Pending ELSE calls[j]]

\* only the first chunk of a batch is pushed when the batch completes
AppendBatchOneMut(st, batchChunks, batchEmbeddings) ==
    Append(st, [chunk |-> batchChunks[1], embedding |-> batchEmbeddings[1]])

\* every entry of the batch takes the embedding of the batch's first chunk
AppendBatchFirstMut(st, batchChunks, batchEmbeddings) ==
    st \o [index \in 1..Len(batchChunks) |->
              [chunk |-> batchChunks[index], embedding |-> batchEmbeddings[1]]]

\* the chunks of a batch are pushed last to first
AppendBatchReversedMut(st, batchChunks, batchEmbeddings) ==
    st \o [index \in 1..Len(batchChunks) |->
              [chunk |-> batchChunks[Len(batchChunks) + 1 - index],
               embedding |-> batchEmbeddings[index]]]

\* batchChunks.forEach((chunk, index) =>
\*     this.store.push({ chunk, embedding: batchEmbeddings[index] }))
AppendBatch(st, batchChunks, batchEmbeddings) ==
    st \o [index \in 1..Len(batchChunks) |->
              [chunk |-> batchChunks[index], embedding |-> batchEmbeddings[index]]]

\* the processed count without the cap at chunks.length
ProcessedCountUncappedMut(from, n) == from + batchSize

\* const processedCount = Math.min(i + batchSize, chunks.length)
ProcessedCount(from, n) == MathMin(from + batchSize, n)

\* the percentage truncated instead of rounded
PercentageFloorMut(processedCount, n) == (100 * processedCount) \div n

\* const percentage = Math.round((processedCount / chunks.length) * 100)
Percentage(processedCount, n) == MathRoundPercent(processedCount, n)

\* the store is not cleared when create starts
ClearedStoreKeepMut(st) == st

\* create keeps the last entry of the store it finds
ClearedStoreKeepLastMut(st) == IF st = <<>> THEN st ELSE <<st[Len(st)]>>

\* this.store = [];
ClearedStore(st) == <<>>

\* create(text, embeddingFn, onProgress?) up to its first await: clears the
\* store, chunks the text and, unless there is no chunk, issues the first
\* batch.  A create call is made only when the previous one has settled.
Create(text, fn, cb) ==
    /\ callNo < MaxCreates
    /\ pc # "awaiting"
    /\ callNo' = callNo + 1
    /\ store' = ClearedStore(store)
    /\ chunks' = chunkTextDefaults[text]
    /\ i' = 0
    /\ embeddingFn' = fn
    /\ onProgress' = cb
    /\ progress' = <<>>
    /\ progressStoreLen' = <<>>
    /\ replaced' = (pc = "returned" /\ store # <<>>)
    /\ IF 0 < Len(chunks')
       THEN /\ embedCalls' = IssueBatch([j \in 1..Len(chunks') |-> Unissued], 0)
            /\ pc' = "awaiting"
       ELSE /\ embedCalls' = <<>>
            /\ pc' = "returned"
    /\ loop' = LoopIdle   \* the chunkText call of create has returned
    /\ UNCHANGED <<searches, call, ret, chatVars, voiceVars>>

\* the embedding function fulfils the call made for chunks[j]
EmbedFulfil(j) ==
    /\ j \in 1..Len(embedCalls)
    /\ embedCalls[j].st = "pending"
    /\ embedCalls' = [embedCalls EXCEPT ![j] = Fulfilled(Embed(embeddingFn, chunks[j]))]
    /\ UNCHANGED <<store, callNo, pc, chunks, i, embeddingFn, onProgress,
                   progress, progressStoreLen, replaced, searches, call, ret, loop, chatVars, voiceVars>>

\* the embedding function rejects the call made for chunks[j]
EmbedReject(j) ==
    /\ j \in 1..Len(embedCalls)
    /\ embedCalls[j].st = "pending"
    /\ embedCalls' = [embedCalls EXCEPT ![j] = Rejected]
    /\ UNCHANGED <<store, callNo, pc, chunks, i, embeddingFn, onProgress,
                   progress, progressStoreLen, replaced, searches, call, ret, loop, chatVars, voiceVars>>

\* The await of the batch's Promise.all resumes with the embeddings: the
\* batch is pushed, onProgress is called, i advances and the loop either
\* issues the next batch and suspends again or ends, and create returns.
BatchDone ==
    /\ pc = "awaiting"
    /\ PromiseAll(BatchPromises(embedCalls, i)) = "fulfilled"
    /\ LET batchChunks == BatchChunks(chunks, i)
           promises == BatchPromises(embedCalls, i)
           batchEmbeddings == [k \in 1..Len(promises) |-> promises[k].val]
           processedCount == ProcessedCount(i, Len(chunks))
       IN  /\ store' = AppendBatch(store, batchChunks, batchEmbeddings)
           /\ IF onProgress
              THEN /\ progress' = Append(progress,
                          [processedCount |-> processedCount,
                           total |-> Len(chunks),
                           percentage |-> Percentage(processedCount, Len(chunks))])
                   /\ progressStoreLen' = Append(progressStoreLen, Len(store'))
              ELSE UNCHANGED <<progress, progressStoreLen>>
    /\ i' = i + batchSize
    /\ IF i' < Len(chunks)
       THEN /\ embedCalls' = IssueBatch(embedCalls, i')
            /\ pc' = "awaiting"
       ELSE /\ UNCHANGED embedCalls
            /\ pc' = "returned"
    /\ UNCHANGED <<callNo, chunks, embeddingFn, onProgress, replaced,
                   searches, call, ret, loop, chatVars, voiceVars>>

\* a failed batch is issued again
BatchFailedRetryMut ==
    /\ pc = "awaiting"
    /\ PromiseAll(BatchPromises(embedCalls, i)) = "rejected"
    /\ embedCalls' = IssueBatch(embedCalls, i)
    /\ UNCHANGED <<store, callNo, pc, chunks, i, embeddingFn, onProgress,
                   progress, progressStoreLen, replaced, searches, call, ret, loop, chatVars, voiceVars>>

\* The await of the batch's Promise.all throws: nothing catches it, so
\* create throws with the store as the earlier batches left it.
BatchFailed ==
    /\ pc = "awaiting"
    /\ PromiseAll(BatchPromises(embedCalls, i)) = "rejected"
    /\ pc' = "threw"
    /\ UNCHANGED <<store, callNo, chunks, i, embeddingFn, embedCalls, onProgress,
                   progress, progressStoreLen, replaced, searches, call, ret, loop, chatVars, voiceVars>>

\* ------------------------------------------------------------------------
\* search
\* ------------------------------------------------------------------------

\* the callers of search; their calls overlap at the await of the query
\* embedding
Searchers == {"s1", "s2"}

\* the queries handed to search: "" and "ca"
Queries == {<<>>, <<[c |-> "c", n |-> 1], [c |-> "a", n |-> 1]>>}

\* the values of topK handed to search; topK left out is DefaultTopK
TopKs == (1..MaxTopK) \cup {DefaultTopK}

\* a caller that has not called search
IdleSearch ==
    [pc |-> "idle", query |-> <<>>, fn |-> "constant", topK |-> DefaultTopK,
     calls |-> 0, seen |-> <<>>, concurrent |-> FALSE, top |-> <<>>,
     result |-> <<>>, createNo |-> 0, createPc |-> "idle"]

\* search answers without an embedding call below two entries
StoreIsEmptyBelowTwoMut(st) == Len(st) <= 1

\* the short-circuit is missing
StoreIsEmptyNeverMut(st) == FALSE

\* this.store.length === 0
StoreIsEmpty(st) == Len(st) = 0

\* every call ranks with the query of caller s1
QueryEmbeddingSharedMut(slots, s) == Embed(slots["s1"].fn, slots["s1"].query)

\* const queryEmbedding = await embeddingFn(query): the vector the call of
\* caller s was fulfilled with, local to that call
QueryEmbedding(slots, s) == Embed(slots[s].fn, slots[s].query)

\* this.store.map(entry => ({ chunk: entry.chunk,
\*     similarity: this.cosineSimilarity(queryEmbedding, entry.embedding) }))
Similarities(st, queryEmbedding) ==
    [k \in 1..Len(st) |->
        [chunk |-> st[k].chunk,
         similarity |-> cosineSimilarity(queryEmbedding, st[k].embedding)]]

\* the comparator with its operands exchanged: ascending order
SortCompareAscendingMut(a, b) == SimilarityCompare(a.similarity, b.similarity)

\* (a, b) => b.similarity - a.similarity, as its sign: negative when a goes
\* before b
SortCompare(a, b) == SimilarityCompare(b.similarity, a.similarity)

RECURSIVE InsertionPointBeforeTiesMut(_, _, _)
\* an element is put before the elements it compares equal to
InsertionPointBeforeTiesMut(sorted, x, p) ==
    IF p > Len(sorted) \/ SortCompare(sorted[p], x) >= 0
    THEN p
    ELSE InsertionPointBeforeTiesMut(sorted, x, p + 1)

RECURSIVE InsertionPoint(_, _, _)
\* Array.prototype.sort is stable: x, which comes after the elements of
\* sorted in the array, is placed after every element that goes before it or
\* compares equal to it, that is before the first element, from position p
\* on, that goes after it
InsertionPoint(sorted, x, p) ==
    IF p > Len(sorted) \/ SortCompare(sorted[p], x) > 0
    THEN p
    ELSE InsertionPoint(sorted, x, p + 1)

RECURSIVE SortFrom(_, _, _)
\* the elements items[k], items[k+1], ... inserted one by one into sorted
SortFrom(items, k, sorted) ==
    IF k > Len(items)
    THEN sorted
    ELSE LET p == InsertionPoint(sorted, items[k], 1)
         IN  SortFrom(items, k + 1,
                 SubSeq(sorted, 1, p - 1) \o <<items[k]>>
                     \o SubSeq(sorted, p, Len(sorted)))

\* similarities.sort((a, b) => b.similarity - a.similarity)
ArraySort(items) == SortFrom(items, 1, <<>>)

\* the first topK - 1 elements
SliceTopKShortMut(sorted, topK) ==
    SubSeq(sorted, 1, MathMin(topK - 1, Len(sorted)))

\* similarities.slice(0, topK) for topK >= 0
SliceTopK(sorted, topK) == SubSeq(sorted, 1, MathMin(topK, Len(sorted)))

\* .map(item => item.chunk)
ChunksOf(items) == [k \in 1..Len(items) |-> items[k].chunk]

\* this.store is sorted where it stands
StoreAfterRankingSortedMut(st, queryEmbedding) ==
    LET sorted == ArraySort([k \in 1..Len(st) |->
                     [chunk |-> st[k].chunk, embedding |-> st[k].embedding,
                      similarity |->
                          cosineSimilarity(queryEmbedding, st[k].embedding)]])
    IN  [k \in 1..Len(st) |->
            [chunk |-> sorted[k].chunk, embedding |-> sorted[k].embedding]]

\* this.store after the ranking: map builds a new array, and it is that
\* array sort reorders and slice cuts
StoreAfterRanking(st, queryEmbedding) == st

\* search(query, embeddingFn, topK) by caller s up to its await: with an
\* empty store it returns [] at once, otherwise it calls the embedding
\* function on the query and suspends.  Each caller makes one call.  The
\* call notes the store it found (seen) and which create call was the
\* latest and where that one stood (createNo, createPc).
Search(s, query, fn, topK) ==
    /\ searches[s].pc = "idle"
    /\ LET suspends == ~ StoreIsEmpty(store)
           others == \E t \in Searchers \ {s} : searches[t].pc = "awaiting"
       IN  searches' = [t \in Searchers |->
               IF t = s
               THEN [pc |-> IF suspends THEN "awaiting" ELSE "returned",
                     query |-> query, fn |-> fn, topK |-> topK,
                     calls |-> IF suspends THEN 1 ELSE 0,
                     seen |-> store,
                     concurrent |-> suspends /\ others,
                     top |-> <<>>, result |-> <<>>,
                     createNo |-> callNo, createPc |-> pc]
               ELSE IF suspends /\ searches[t].pc = "awaiting"
               THEN [searches[t] EXCEPT !.concurrent = TRUE]
               ELSE searches[t]]
    /\ UNCHANGED <<store, callNo, pc, chunks, i, embeddingFn, embedCalls,
                   onProgress, progress, progressStoreLen, replaced, call, ret, loop, chatVars, voiceVars>>

\* The query embedding of caller s is fulfilled and its search resumes: the
\* entries of the store are scored, sorted and cut, and the chunks returned.
\* (Each local constant is bound once, as the one element of a set.)
SearchResume(s) ==
    /\ searches[s].pc = "awaiting"
    /\ \E queryEmbedding \in {QueryEmbedding(searches, s)} :
       \E similarities \in {Similarities(store, queryEmbedding)} :
       \E top \in {SliceTopK(ArraySort(similarities), searches[s].topK)} :
           /\ searches' = [searches EXCEPT ![s].pc = "returned",
                                           ![s].top = top,
                                           ![s].result = ChunksOf(top)]
           /\ store' = StoreAfterRanking(store, queryEmbedding)
    /\ UNCHANGED <<callNo, pc, chunks, i, embeddingFn, embedCalls,
                   onProgress, progress, progressStoreLen, replaced, call, ret, loop, chatVars, voiceVars>>

\* The query embedding of caller s is rejected: nothing catches it and the
\* search throws.
SearchReject(s) ==
    /\ searches[s].pc = "awaiting"
    /\ searches' = [searches EXCEPT ![s].pc = "threw"]
    /\ UNCHANGED <<store, callNo, pc, chunks, i, embeddingFn, embedCalls,
                   onProgress, progress, progressStoreLen, replaced, call, ret, loop, chatVars, voiceVars>>

\* ------------------------------------------------------------------------
\* chunkText and cosineSimilarity called on their own
\* ------------------------------------------------------------------------

\* the texts of at most MaxPlainLen characters over two characters, each a
\* sequence of characters
PlainTexts == UNION {[1..n -> {"a", "b"}] : n \in 0..MaxPlainLen}

RECURSIVE Encode(_)
\* the run-length encoding of a sequence of characters
Encode(plain) ==
    IF plain = <<>>
    THEN <<>>
    ELSE LET front == Encode(SubSeq(plain, 1, Len(plain) - 1))
             last == plain[Len(plain)]
         IN  IF front # <<>> /\ front[Len(front)].c = last
             THEN [front EXCEPT ![Len(front)].n = @ + 1]
             ELSE Append(front, [c |-> last, n |-> 1])

RECURSIVE Decode(_)
\* the sequence of characters of a run-length encoded string
Decode(s) ==
    IF s = <<>>
    THEN <<>>
    ELSE [k \in 1..s[1].n |-> s[1].c] \o Decode(Tail(s))

\* the pairs chunkSize > overlap >= 0
ChunkParams ==
    {<<cs, ov>> \in (1..MaxChunkSize) \X (0..MaxChunkSize) : ov < cs}

\* the vectors of at most MaxDim components
Vectors == UNION {[1..n -> {0 - 1, 0, 1}] : n \in 0..MaxDim}

NoCall ==
    [op |-> "none", plain |-> <<>>, chunkSize |-> 1, overlap |-> 0,
     vecA |-> <<>>, vecB |-> <<>>]

ChunkTextCalls ==
    {[op |-> "chunkText", plain |-> t, chunkSize |-> cp[1], overlap |-> cp[2],
      vecA |-> <<>>, vecB |-> <<>>] : t \in PlainTexts, cp \in ChunkParams}

CosineSimilarityCalls ==
    {[op |-> "cosineSimilarity", plain |-> <<>>, chunkSize |-> 1, overlap |-> 0,
      vecA |-> a, vecB |-> b] : a \in Vectors, b \in Vectors}

NotReturned == [done |-> FALSE, chunks |-> <<>>, similarity |-> SimilarityZero]

\* chunkText(text, chunkSize, overlap) runs and returns
CallChunkText ==
    /\ call.op = "chunkText"
    /\ ~ ret.done
    /\ ret' = [done |-> TRUE,
               chunks |-> chunkText(Encode(call.plain), call.chunkSize, call.overlap),
               similarity |-> SimilarityZero]
    /\ UNCHANGED <<store, callNo, pc, chunks, i, embeddingFn, embedCalls,
                   onProgress, progress, progressStoreLen, replaced, searches,
                   call, loop, chatVars, voiceVars>>

\* cosineSimilarity(vecA, vecB) runs and returns
CallCosineSimilarity ==
    /\ call.op = "cosineSimilarity"
    /\ ~ ret.done
    /\ ret' = [done |-> TRUE, chunks |-> <<>>,
               similarity |-> cosineSimilarity(call.vecA, call.vecB)]
    /\ UNCHANGED <<store, callNo, pc, chunks, i, embeddingFn, embedCalls,
                   onProgress, progress, progressStoreLen, replaced, searches,
                   call, loop, chatVars, voiceVars>>

\* ------------------------------------------------------------------------
\* chunkText, one iteration of its loop at a time
\* ------------------------------------------------------------------------

\* chunkText(text, chunkSize, overlap) is entered by caller: i = 0 and
\* chunks = []
LoopEntered(caller, text, chunkSize, overlap) ==
    [pc |-> "running", caller |-> caller, text |-> text,
     chunkSize |-> chunkSize, overlap |-> overlap, offset |-> 0,
     pushed |-> <<>>]

\* i += chunkSize - overlap
NextWindowStart(offset, chunkSize, overlap) == offset + chunkSize - overlap

\* One evaluation of the loop condition and, when it holds, one run of the
\* loop body: push the window, then break at the end of the text or move
\* the window start.
ChunkStep ==
    /\ loop.pc = "running"
    /\ LET length == StrLen(loop.text)
           end == MathMin(loop.offset + loop.chunkSize, length)
           next == Append(loop.pushed, StrSlice(loop.text, loop.offset, end))
       IN  loop' =
               IF loop.offset < length
               THEN IF end = length
                    THEN [loop EXCEPT !.pc = "done", !.pushed = next]
                    ELSE [loop EXCEPT !.pushed = next,
                                      !.offset = NextWindowStart(loop.offset,
                                                     loop.chunkSize, loop.overlap)]
               ELSE [loop EXCEPT !.pc = "done"]
    /\ UNCHANGED <<store, callNo, pc, chunks, i, embeddingFn, embedCalls,
                   onProgress, progress, progressStoreLen, replaced, searches,
                   call, ret, chatVars, voiceVars>>

\* create(text, embeddingFn, onProgress) is called and enters
\* this.chunkText(text)
CreateEnter(text) ==
    /\ callNo < MaxCreates
    /\ pc # "awaiting"
    /\ loop.pc = "idle"
    /\ loop' = LoopEntered("create", text, DefaultChunkSize, DefaultOverlap)
    /\ UNCHANGED <<store, callNo, pc, chunks, i, embeddingFn, embedCalls,
                   onProgress, progress, progressStoreLen, replaced, searches,
                   call, ret, chatVars, voiceVars>>

\* chunkText has returned to create, which runs on to its first await or,
\* without chunks, to its end
CreateChunked ==
    /\ loop.pc = "done"
    /\ loop.caller = "create"
    /\ Create(loop.text, "byLetter", TRUE)

\* an embedding call of the latest create settles; no promise callback runs
\* while create is in its synchronous part
EmbedSettle ==
    /\ loop.pc = "idle"
    /\ \E j \in 1..Len(embedCalls) : EmbedFulfil(j) \/ EmbedReject(j)

\* ------------------------------------------------------------------------
\* useVoiceAssistant
\* ------------------------------------------------------------------------

\* speechSynthesis with nothing to speak.  handed lists the utterances the
\* latest speak call has had handed over, sentences the sentences of that
\* call.
SilentSynthesis == [pending |-> <<>>, handed |-> <<>>, sentences |-> <<>>]

\* The hook after its effects have run where the API key is set and speech
\* recognition is supported: useState(...) of lines 54-57, the refs of
\* lines 59-64.
VoiceInit ==
    /\ conversationState = "idle"
    /\ transcript = <<>>
    /\ utteranceQueue = <<>>
    /\ speechSynthesis = SilentSynthesis
    /\ recognition = "inactive"
    /\ responses = <<>>
    /\ toggles = [made |-> 0, last |-> "none"]


\* A text is a sequence of tokens: words, the sentence terminators, "#" and
\* the space.
Terminators == {".", "!", "?"}

Whitespace == {" "}

\* The first n tokens of text that all lie in class, n as large as possible.
RunLength(text, class) ==
    IF text = <<>> \/ Head(text) \notin class THEN 0
    ELSE CHOOSE n \in 1..Len(text) :
            /\ \A k \in 1..n : text[k] \in class
            /\ n = Len(text) \/ text[n + 1] \notin class

\* text.replace(/\*\*(.*?)\*\*/g, '$1').replace(/#+\s/g, '') on texts without
\* "**": every run of "#" that a space follows goes with that space.
RECURSIVE cleanedText(_)
cleanedText(text) ==
    IF text = <<>> THEN <<>>
    ELSE IF Head(text) = "#"
         THEN LET run == RunLength(text, {"#"})
              IN  IF run < Len(text) /\ text[run + 1] \in Whitespace
                  THEN cleanedText(SubSeq(text, run + 2, Len(text)))
                  ELSE SubSeq(text, 1, run)
                         \o cleanedText(SubSeq(text, run + 1, Len(text)))
         ELSE <<Head(text)>> \o cleanedText(Tail(text))

\* String.prototype.trim
RECURSIVE Trim(_)
Trim(text) ==
    IF text = <<>> THEN <<>>
    ELSE IF Head(text) \in Whitespace THEN Trim(Tail(text))
    ELSE IF text[Len(text)] \in Whitespace
         THEN Trim(SubSeq(text, 1, Len(text) - 1))
         ELSE text

\* text.match(/[^.!?]+[.!?]*|[\s\S]+/g) || []: a run of non-terminators with
\* the terminators after it, or, where the text goes on with a terminator,
\* all of the rest.
RECURSIVE matchSentences(_)
matchSentences(text) ==
    IF text = <<>> THEN <<>>
    ELSE IF Head(text) \notin Terminators
         THEN LET words == CHOOSE n \in 1..Len(text) :
                              /\ \A k \in 1..n : text[k] \notin Terminators
                              /\ n = Len(text) \/ text[n + 1] \in Terminators
                  stop  == words + RunLength(SubSeq(text, words + 1, Len(text)),
                                             Terminators)
              IN  <<SubSeq(text, 1, stop)>>
                     \o matchSentences(SubSeq(text, stop + 1, Len(text)))
         ELSE <<text>>

\* The utterances speak(text) puts in the queue, one per sentence.
Utterances(text) ==
    LET sentences == matchSentences(cleanedText(text))
    IN  [k \in 1..Len(sentences) |-> Trim(sentences[k])]

\* What an utterance's onend and onerror do: the result of speakQueue() as the
\* new conversation state, queue and speech synthesis.
speakQueue(state, queue, synthesis) ==
    IF queue # <<>>
    THEN [conversationState |-> state,
          utteranceQueue    |-> Tail(queue),
          speechSynthesis   |->
              [synthesis EXCEPT !.pending = Append(@, Head(queue)),
                                !.handed  = Append(@, Head(queue))]]
    ELSE [conversationState |-> "idle",
          utteranceQueue    |-> queue,
          speechSynthesis   |-> synthesis]

\* speak(text), as the new conversation state, queue and speech synthesis.
\* The state updates of one call are applied together, the last one winning.
speak(text, synthesis) ==
    IF text = <<>>
    THEN [conversationState |-> "idle",
          utteranceQueue    |-> utteranceQueue,
          speechSynthesis   |-> synthesis]
    ELSE speakQueue("speaking", Utterances(text),
                    [synthesis EXCEPT !.handed = <<>>,
                                      !.sentences = Utterances(text)])

\* stopAll(): recognition.abort(), which ends the session at once,
\* speechSynthesis.cancel() and the queue emptied.  The utterances cancelled
\* report it to their handlers right after the calling handler, whose own
\* last state is state: speakQueue() finds the queue empty and sets 'idle'.
StatesAfterStopAll(state) ==
    IF speechSynthesis.pending # <<>> THEN {state, "idle"} ELSE {state}

\* What the user can be heard to say: nothing, a question, and two requests
\* for another persona.
UserTexts ==
    { <<>>,
      <<"what", "is", "this", "?">>,
      <<"use", "the", "expert", ".">> }

Personas == {"socratic", "simple", "expert", "default"}

\* checkForPersonaSwitch: the persona asked for, "none" where the text, its
\* ".", "," and "?" removed, does not begin with such a request.
checkForPersonaSwitch(text) ==
    LET lowerText == SelectSeq(text, LAMBDA w : w \notin {".", ",", "?"})
        after(n)  == IF Len(lowerText) > n /\ lowerText[n + 1] = "the"
                     THEN n + 2 ELSE n + 1
        named(n)  == IF Len(lowerText) >= n /\ lowerText[n] \in Personas
                     THEN lowerText[n] ELSE "none"
    IN  IF Len(lowerText) >= 2 /\ <<lowerText[1], lowerText[2]>>
                \in {<<"switch", "to">>, <<"change", "to">>}
        THEN named(after(2))
        ELSE IF Len(lowerText) >= 2
                  /\ <<lowerText[1], lowerText[2]>> = <<"use", "the">>
                  /\ named(after(2)) # "none"
        THEN named(after(2))
        ELSE IF Len(lowerText) >= 1 /\ lowerText[1] = "use"
        THEN named(after(1))
        ELSE "none"

confirmationText(persona) ==
    <<"Alright", ",", " ", "switched to the", " ", persona, " ", "persona", ".">>

\* response.text of the model's answers: none, one sentence, two sentences,
\* a heading alone, and a text that begins with a terminator.
AiTexts ==
    { <<>>,
      <<"a">>,
      <<"a", ".", " ", "b", "!">>,
      <<"#", " ">>,
      <<"?", "a", ".", "b">> }

SourcesOnlyText ==
    <<"I found some relevant information", ".", " ",
      "Please see the sources for details", ".">>

SourcesNote ==
    <<" ", "I've also found some sources", ",", " ",
      "which I've added to the transcript", ".">>

\* aiText of lines 172-192
AiText(text, sources) ==
    IF Trim(text) = <<>> /\ sources THEN SourcesOnlyText ELSE text

\* spokenText of lines 195-197
SpokenText(text, sources) ==
    IF sources THEN AiText(text, sources) \o SourcesNote
    ELSE AiText(text, sources)

\* The calls awaiting the model, those before position k and those after it.
Without(calls, k) ==
    SubSeq(calls, 1, k - 1) \o SubSeq(calls, k + 1, Len(calls))

\* toggleConversation() where the state is 'idle' or 'error': startListening,
\* whose guards pass, so stopAll(), setError(null), recognition.start().
StartListening ==
    /\ conversationState \in {"idle", "error"}
    /\ conversationState' \in StatesAfterStopAll(conversationState)
    /\ utteranceQueue' = <<>>
    /\ speechSynthesis' = SilentSynthesis
    /\ recognition' = "starting"
    /\ toggles' = [made |-> toggles.made + 1, last |-> "start"]
    /\ UNCHANGED <<transcript, responses>>

\* toggleConversation() where the state is 'listening': recognition.stop(),
\* after which the session delivers what it heard, if anything, and ends.
StopListening ==
    /\ conversationState = "listening"
    /\ recognition' = IF recognition \in {"starting", "started"}
                      THEN "stopping" ELSE recognition
    /\ toggles' = [made |-> toggles.made + 1, last |-> "stop"]
    /\ UNCHANGED <<conversationState, transcript, utteranceQueue,
                   speechSynthesis, responses>>

\* toggleConversation() where the state is 'processing' or 'speaking':
\* stopAll() and setConversationState('idle').  The calls awaiting the model
\* go on; cancelled records that the user cancelled after they began.
CancelConversation ==
    /\ conversationState \in {"processing", "speaking"}
    /\ conversationState' \in StatesAfterStopAll("idle")
    /\ utteranceQueue' = <<>>
    /\ speechSynthesis' = SilentSynthesis
    /\ recognition' = "inactive"
    /\ responses' = [k \in 1..Len(responses) |->
                        [responses[k] EXCEPT !.cancelled = TRUE]]
    /\ toggles' = [made |-> toggles.made + 1, last |-> "cancel"]
    /\ UNCHANGED transcript

ToggleConversation ==
    /\ toggles.made < MaxToggles
    /\ \/ StartListening
       \/ StopListening
       \/ CancelConversation
    /\ UNCHANGED <<storeVars, chatVars>>

\* recognition.onstart
RecognitionStart ==
    /\ recognition = "starting"
    /\ recognition' = "started"
    /\ conversationState' = "listening"
    /\ UNCHANGED <<transcript, utteranceQueue, speechSynthesis, responses,
                   toggles, storeVars, chatVars>>

\* recognition.onresult with processAndRespond(userText) up to its await:
\* the persona switch spoken at once, any other text sent to the model.
RecognitionResult(userText) ==
    /\ recognition \in {"started", "stopping"}
    /\ recognition' = "ending"
    /\ IF userText = <<>>
       THEN UNCHANGED <<conversationState, transcript, utteranceQueue,
                        speechSynthesis, responses>>
       ELSE LET heard ==
                  Append(transcript, [speaker |-> "user", text |-> userText])
                newPersona == checkForPersonaSwitch(userText)
            IN  IF newPersona # "none"
                THEN \E next \in {speak(confirmationText(newPersona),
                                        speechSynthesis)} :
                        /\ transcript' =
                              Append(heard,
                                     [speaker |-> "ai",
                                      text |-> confirmationText(newPersona)])
                        /\ conversationState' = next.conversationState
                        /\ utteranceQueue' = next.utteranceQueue
                        /\ speechSynthesis' = next.speechSynthesis
                        /\ UNCHANGED responses
                ELSE /\ transcript' = heard
                     /\ conversationState' = "processing"
                     /\ responses' =
                           Append(responses,
                                  [message |-> userText, cancelled |-> FALSE])
                     /\ UNCHANGED <<utteranceQueue, speechSynthesis>>
    /\ UNCHANGED <<toggles, storeVars, chatVars>>

\* recognition.onerror
RecognitionError ==
    /\ recognition \in {"starting", "started", "stopping"}
    /\ recognition' = "ending"
    /\ conversationState' = "error"
    /\ UNCHANGED <<transcript, utteranceQueue, speechSynthesis, responses,
                   toggles, storeVars, chatVars>>

\* recognition.onend
RecognitionEnd ==
    /\ recognition \in {"stopping", "ending"}
    /\ recognition' = "inactive"
    /\ conversationState' =
          IF conversationState = "listening" THEN "idle" ELSE conversationState
    /\ UNCHANGED <<transcript, utteranceQueue, speechSynthesis, responses,
                   toggles, storeVars, chatVars>>

\* processAndRespond after its await, the model having answered call k with
\* text and, where sources, with web sources: lines 172-198.
ResponseFulfilled(k, text, sources) ==
    /\ k \in 1..Len(responses)
    /\ responses' = Without(responses, k)
    /\ transcript' = Append(transcript,
                            [speaker |-> "ai", text |-> AiText(text, sources),
                             sources |-> sources])
    /\ \E next \in {speak(SpokenText(text, sources), speechSynthesis)} :
          /\ conversationState' = next.conversationState
          /\ utteranceQueue' = next.utteranceQueue
          /\ speechSynthesis' = next.speechSynthesis
    /\ UNCHANGED <<recognition, toggles, storeVars, chatVars>>

\* processAndRespond after its await, call k rejected: lines 199-204.
ResponseRejected(k) ==
    /\ k \in 1..Len(responses)
    /\ responses' = Without(responses, k)
    /\ conversationState' = "error"
    /\ UNCHANGED <<transcript, utteranceQueue, speechSynthesis, recognition,
                   toggles, storeVars, chatVars>>

\* The utterance being spoken is over; finished tells its onend from its
\* onerror, which logs the error.  Both run speakQueue().
UtteranceOver(finished) ==
    /\ speechSynthesis.pending # <<>>
    /\ \E next \in {speakQueue(conversationState, utteranceQueue,
                               [speechSynthesis EXCEPT !.pending = Tail(@)])} :
          /\ conversationState' = next.conversationState
          /\ utteranceQueue' = next.utteranceQueue
          /\ speechSynthesis' = next.speechSynthesis
    /\ UNCHANGED <<transcript, recognition, responses, toggles,
                   storeVars, chatVars>>

UtteranceEnd == UtteranceOver(TRUE)

UtteranceError == UtteranceOver(FALSE)

NextVoice ==
    \/ ToggleConversation
    \/ RecognitionStart
    \/ \E userText \in UserTexts : RecognitionResult(userText)
    \/ RecognitionError
    \/ RecognitionEnd
    \/ \E k \in 1..MaxToggles, text \in AiTexts, sources \in BOOLEAN :
          ResponseFulfilled(k, text, sources)
    \/ \E k \in 1..MaxToggles : ResponseRejected(k)
    \/ UtteranceEnd
    \/ UtteranceError

\* ------------------------------------------------------------------------
\* useChat: uploads and messages
\* ------------------------------------------------------------------------

\* the handleFileUpload calls, numbered in the order they are made
Uploads == {1, 2}

\* null where a VectorStore is expected
NoInstance == 0

\* LearningMode: the two modes that take documents, Quiz, which takes a
\* file for its questions, and one mode that takes no file
Modes == {"KnowledgeBase", "QA", "Quiz", "Summarize"}

\* what processFile extracts from the files: nothing, one chunk, two batches
Files == {MkText(0), MkText(1), MkText(batchSize + 1)}

\* the least length of text an upload goes on with
MinTextLength == 10

\* geminiService.embedContent
EmbedContent == "byLetter"

IdleUpload ==
    [pc |-> "idle", mode |-> "KnowledgeBase", file |-> <<>>, inst |-> NoInstance,
     chunks |-> <<>>, i |-> 0]

\* new VectorStore(): store = [].  origin[k] is the upload whose create
\* pushed store[k], creates the number of create calls made on the instance.
FreshInstance == [store |-> <<>>, origin |-> <<>>, creates |-> 0]

\* qaDocument = null
NoDocument == [store |-> NoInstance, fullText |-> <<>>]

\* embeds counts the calls of embedContent the sendMessage call has caused,
\* completion names the service call it has made for its answer
IdleSend ==
    [pc |-> "idle", mode |-> "KnowledgeBase", inst |-> NoInstance,
     query |-> <<>>, empty |-> FALSE, seen |-> <<>>, result |-> <<>>,
     embeds |-> 0, completion |-> "none"]

\* fileProcessingProgress = null
NoProgress == [set |-> FALSE, percentage |-> 0]

\* setFileProcessingProgress({ stage, percentage })
Progress(percentage) == [set |-> TRUE, percentage |-> percentage]

\* 15 + Math.round(progress.percentage * 0.80)
CreateProgress(percentage) == 15 + (8 * percentage + 5) \div 10

\* useState(...) of lines 15-22
ChatInit ==
    /\ activeMode = "KnowledgeBase"
    /\ vectorStore = NoInstance
    /\ qaDocument = NoDocument
    /\ messagesByMode = [m \in Modes |-> [defined |-> FALSE, list |-> <<>>]]
    /\ isProcessingFile = FALSE
    /\ fileProcessingProgress = NoProgress
    /\ isLoading = FALSE
    /\ uploads = [u \in Uploads |-> IdleUpload]
    /\ instances = [u \in Uploads |-> FreshInstance]
    /\ send = IdleSend

\* addMessage(message) of a callback that captured mode: the list of that
\* mode, or [] when it has none, with the message appended
AddMessage(msgs, mode, kind) ==
    [msgs EXCEPT ![mode] = [defined |-> TRUE, list |-> Append(@.list, kind)]]

\* neither an upload prompt nor a document overview
IsKept(kind) == kind \notin {"knowledge_upload", "document_overview"}

\* the upload prompts and document overviews are taken out of the list
FilterUploadMessages(msgs, mode) ==
    [msgs EXCEPT ![mode] = [defined |-> TRUE, list |-> SelectSeq(@.list, IsKept)]]

\* !(!text || text.trim().length < 10): the texts hold no white space
SufficientText(text) == StrLen(text) >= MinTextLength

\* every upload uses the instance of the first upload
NewVectorStoreSharedMut(u) == 1

\* const newVectorStore = new VectorStore() in upload u
NewVectorStore(u) == u

\* selectMode(newMode)
SelectMode(newMode) ==
    /\ newMode # activeMode
    /\ activeMode' = newMode
    /\ messagesByMode' =
           IF messagesByMode[newMode].defined
           THEN messagesByMode
           ELSE [messagesByMode EXCEPT ![newMode] =
                    [defined |-> TRUE,
                     list |-> IF newMode = "KnowledgeBase" /\ vectorStore = NoInstance
                              THEN <<"knowledge_upload">> ELSE <<>>]]
    /\ UNCHANGED <<vectorStore, qaDocument, isProcessingFile, fileProcessingProgress, isLoading,
                   uploads, instances, send>>
    /\ UNCHANGED <<storeVars, voiceVars>>

\* handleFileUpload(file) is called, as call u, in a mode that takes
\* files (in the others it returns at once), and runs to its first await
UploadStart(u, file) ==
    /\ uploads[u].pc = "idle"
    /\ \A v \in Uploads : v < u => uploads[v].pc # "idle"
    /\ activeMode \in {"Quiz", "KnowledgeBase", "QA"}
    /\ isProcessingFile' = TRUE
    /\ IF activeMode = "Quiz"
       THEN /\ fileProcessingProgress' = Progress(25)
            /\ messagesByMode' =
                   AddMessage(messagesByMode, activeMode, "quiz_generating")
            /\ uploads' = [uploads EXCEPT ![u] =
                   [IdleUpload EXCEPT !.pc = "quizExtracting",
                                      !.mode = activeMode, !.file = file]]
       ELSE /\ fileProcessingProgress' = Progress(15)
            /\ messagesByMode' = FilterUploadMessages(messagesByMode, activeMode)
            /\ uploads' = [uploads EXCEPT ![u] =
                   [IdleUpload EXCEPT !.pc = "extracting",
                                      !.mode = activeMode, !.file = file]]
    /\ UNCHANGED <<activeMode, vectorStore, qaDocument, isLoading, instances, send>>
    /\ UNCHANGED <<storeVars, voiceVars>>

\* the catch without the finally: the busy flags stay as they are
UploadCatchNoFinallyMut(u, kind) ==
    /\ messagesByMode' = AddMessage(messagesByMode, uploads[u].mode, kind)
    /\ uploads' = [uploads EXCEPT ![u].pc = "failed"]
    /\ UNCHANGED <<activeMode, vectorStore, qaDocument, isProcessingFile,
                   fileProcessingProgress, isLoading, instances, send>>

\* the catch and the finally of call u: the error message is added and the
\* busy flags are released; nothing is published
UploadCatch(u, kind) ==
    /\ messagesByMode' = AddMessage(messagesByMode, uploads[u].mode, kind)
    /\ isProcessingFile' = FALSE
    /\ fileProcessingProgress' = NoProgress
    /\ uploads' = [uploads EXCEPT ![u].pc = "failed"]
    /\ UNCHANGED <<activeMode, vectorStore, qaDocument, isLoading, instances, send>>

\* Quiz: processFile(file) is fulfilled
QuizExtracted(u) ==
    /\ uploads[u].pc = "quizExtracting"
    /\ IF SufficientText(uploads[u].file)
       THEN /\ uploads' = [uploads EXCEPT ![u].pc = "quizGenerating"]
            /\ fileProcessingProgress' = Progress(75)
            /\ UNCHANGED <<activeMode, vectorStore, qaDocument, messagesByMode,
                           isProcessingFile, isLoading, instances, send>>
       ELSE UploadCatch(u, "quiz_error")
    /\ UNCHANGED <<storeVars, voiceVars>>

\* Quiz: processFile(file) is rejected
QuizExtractRejected(u) ==
    /\ uploads[u].pc = "quizExtracting"
    /\ UploadCatch(u, "quiz_error")
    /\ UNCHANGED <<storeVars, voiceVars>>

\* Quiz: generateQuiz is fulfilled
QuizGenerated(u) ==
    /\ uploads[u].pc = "quizGenerating"
    /\ messagesByMode' = AddMessage(messagesByMode, uploads[u].mode, "quiz")
    /\ isProcessingFile' = FALSE
    /\ fileProcessingProgress' = NoProgress
    /\ uploads' = [uploads EXCEPT ![u].pc = "done"]
    /\ UNCHANGED <<activeMode, vectorStore, qaDocument, isLoading, instances, send>>
    /\ UNCHANGED <<storeVars, voiceVars>>

\* Quiz: generateQuiz is rejected
QuizFailed(u) ==
    /\ uploads[u].pc = "quizGenerating"
    /\ UploadCatch(u, "quiz_error")
    /\ UNCHANGED <<storeVars, voiceVars>>

\* processFile(file) is fulfilled: with too little text the call throws;
\* otherwise it constructs its VectorStore and calls create on it, which
\* clears the store, chunks the text and issues the first batch
UploadExtracted(u) ==
    /\ uploads[u].pc = "extracting"
    /\ IF SufficientText(uploads[u].file)
       THEN /\ uploads' = [uploads EXCEPT
                   ![u].pc = "creating",
                   ![u].inst = NewVectorStore(u),
                   ![u].chunks = chunkTextDefaults[uploads[u].file],
                   ![u].i = 0]
            /\ instances' = [instances EXCEPT ![NewVectorStore(u)] =
                   [store |-> ClearedStore(@.store), origin |-> <<>>,
                    creates |-> @.creates + 1]]
            /\ UNCHANGED <<activeMode, vectorStore, qaDocument, messagesByMode,
                           isProcessingFile, fileProcessingProgress, isLoading, send>>
       ELSE UploadCatch(u, "upload_error")
    /\ UNCHANGED <<storeVars, voiceVars>>

\* processFile(file) is rejected
UploadExtractRejected(u) ==
    /\ uploads[u].pc = "extracting"
    /\ UploadCatch(u, "upload_error")
    /\ UNCHANGED <<storeVars, voiceVars>>

\* The embedding calls of the batch create of call u awaits are all
\* fulfilled: the batch is pushed, and create issues the next batch or
\* returns to handleFileUpload, which asks for the document overview.
UploadBatchDone(u) ==
    /\ uploads[u].pc = "creating"
    /\ \E batchChunks \in {BatchChunks(uploads[u].chunks, uploads[u].i)} :
          instances' = [instances EXCEPT ![uploads[u].inst] =
              [@ EXCEPT
                  !.store = AppendBatch(@, batchChunks,
                                [k \in 1..Len(batchChunks) |->
                                    Embed(EmbedContent, batchChunks[k])]),
                  !.origin = @ \o [k \in 1..Len(batchChunks) |-> u]]]
    /\ uploads' = [uploads EXCEPT
           ![u].i = @ + batchSize,
           ![u].pc = IF uploads[u].i + batchSize < Len(uploads[u].chunks)
                     THEN "creating" ELSE "overview"]
    /\ fileProcessingProgress' =
           IF uploads[u].i + batchSize < Len(uploads[u].chunks)
           THEN Progress(CreateProgress(Percentage(
                    ProcessedCount(uploads[u].i, Len(uploads[u].chunks)),
                    Len(uploads[u].chunks))))
           ELSE Progress(95)
    /\ UNCHANGED <<activeMode, vectorStore, qaDocument, messagesByMode,
                   isProcessingFile, isLoading, send>>
    /\ UNCHANGED <<storeVars, voiceVars>>

\* the failed create publishes its instance all the same
UploadBatchFailedPublishMut(u) ==
    /\ uploads[u].pc = "creating"
    /\ vectorStore' = uploads[u].inst
    /\ messagesByMode' = AddMessage(messagesByMode, uploads[u].mode, "upload_error")
    /\ isProcessingFile' = FALSE
    /\ fileProcessingProgress' = NoProgress
    /\ uploads' = [uploads EXCEPT ![u].pc = "failed"]
    /\ UNCHANGED <<activeMode, qaDocument, isLoading, instances, send>>
    /\ UNCHANGED <<storeVars, voiceVars>>

\* an embedding call of the batch is rejected: create throws
UploadBatchFailed(u) ==
    /\ uploads[u].pc = "creating"
    /\ UploadCatch(u, "upload_error")
    /\ UNCHANGED <<storeVars, voiceVars>>

\* generateDocumentOverview is fulfilled: the instance is published for the
\* mode the call captured and the overview is added to that mode's list
UploadOverviewDone(u) ==
    /\ uploads[u].pc = "overview"
    /\ vectorStore' = IF uploads[u].mode = "KnowledgeBase"
                      THEN uploads[u].inst ELSE vectorStore
    /\ qaDocument' = IF uploads[u].mode = "QA"
                     THEN [store |-> uploads[u].inst, fullText |-> uploads[u].file]
                     ELSE qaDocument
    /\ messagesByMode' = AddMessage(messagesByMode, uploads[u].mode, "document_overview")
    /\ isProcessingFile' = FALSE
    /\ fileProcessingProgress' = NoProgress
    /\ uploads' = [uploads EXCEPT ![u].pc = "done"]
    /\ UNCHANGED <<activeMode, isLoading, instances, send>>
    /\ UNCHANGED <<storeVars, voiceVars>>

\* generateDocumentOverview is rejected
UploadOverviewFailed(u) ==
    /\ uploads[u].pc = "overview"
    /\ UploadCatch(u, "upload_error")
    /\ UNCHANGED <<storeVars, voiceVars>>

\* ------------------------------------------------------------------------
\* useChat: sendMessage
\* ------------------------------------------------------------------------

\* the catch and the finally of sendMessage
SendCatch(msgs) ==
    /\ messagesByMode' = AddMessage(msgs, send.mode, "send_error")
    /\ isLoading' = FALSE

\* the Knowledge Base is asked without a check for a store
ThrowsWithoutStoreNeverMut(mode, published) == FALSE

\* if (!vectorStore) throw new Error(...), in the KnowledgeBase case
ThrowsWithoutStore(mode, published) ==
    mode = "KnowledgeBase" /\ published = NoInstance

\* the service call that answers in a mode, or with a document, that has
\* no search
DirectCompletion(mode) ==
    IF mode = "QA" THEN "getAnswer"
    ELSE IF mode = "Summarize" THEN "getSummary"
    ELSE "generateQuiz"

\* sendMessage(input), input.text not blank, up to its first await
SendMessage(query) ==
    /\ send.pc = "idle"
    /\ query # <<>>
    /\ \E published \in {IF activeMode = "KnowledgeBase" THEN vectorStore
                         ELSE IF activeMode = "QA" THEN qaDocument.store
                         ELSE NoInstance} :
       \E said \in {AddMessage(messagesByMode, activeMode, "user")} :
          IF ThrowsWithoutStore(activeMode, published)
          THEN /\ send' = [IdleSend EXCEPT !.pc = "failed", !.mode = activeMode,
                                           !.query = query]
               /\ messagesByMode' = AddMessage(said, activeMode, "send_error")
               /\ isLoading' = FALSE
          ELSE /\ send' = [IdleSend EXCEPT
                      !.pc = IF published = NoInstance THEN "answering"
                             ELSE "searching",
                      !.mode = activeMode, !.query = query, !.inst = published,
                      !.empty = IF published = NoInstance THEN FALSE
                                ELSE StoreIsEmpty(instances[published].store),
                      !.embeds = IF published = NoInstance THEN 0
                                 ELSE IF StoreIsEmpty(instances[published].store)
                                 THEN 0 ELSE 1,
                      !.completion = IF published = NoInstance
                                     THEN DirectCompletion(activeMode)
                                     ELSE "none"]
               /\ messagesByMode' = said
               /\ isLoading' = TRUE
    /\ UNCHANGED <<activeMode, vectorStore, qaDocument, isProcessingFile, fileProcessingProgress,
                   uploads, instances>>
    /\ UNCHANGED <<storeVars, voiceVars>>

\* search returns to sendMessage: [] from an empty store, else the chunks
\* ranked against the store as it is when the query embedding arrives
SendSearchDone ==
    /\ send.pc = "searching"
    /\ \E st \in {IF send.empty THEN <<>> ELSE instances[send.inst].store} :
       \E similarities \in {Similarities(st, Embed(EmbedContent, send.query))} :
       \E result \in {ChunksOf(SliceTopK(ArraySort(similarities), DefaultTopK))} :
          /\ send' = [send EXCEPT
                 !.pc = IF Len(result) = 0 THEN "done" ELSE "answering",
                 !.seen = st, !.result = result,
                 !.completion = IF Len(result) = 0 THEN "none"
                                ELSE "getAnswerFromContext"]
          /\ IF Len(result) = 0
             THEN /\ messagesByMode' = AddMessage(messagesByMode, send.mode,
                                                  "no_information")
                  /\ isLoading' = FALSE
             ELSE UNCHANGED <<messagesByMode, isLoading>>
    /\ UNCHANGED <<activeMode, vectorStore, qaDocument, isProcessingFile, fileProcessingProgress,
                   uploads, instances>>
    /\ UNCHANGED <<storeVars, voiceVars>>

\* the embedding call of search is rejected
SendSearchFailed ==
    /\ send.pc = "searching"
    /\ ~ send.empty
    /\ send' = [send EXCEPT !.pc = "failed"]
    /\ SendCatch(messagesByMode)
    /\ UNCHANGED <<activeMode, vectorStore, qaDocument, isProcessingFile, fileProcessingProgress,
                   uploads, instances>>
    /\ UNCHANGED <<storeVars, voiceVars>>

\* the call that produces the answer is fulfilled
SendAnswerDone ==
    /\ send.pc = "answering"
    /\ send' = [send EXCEPT !.pc = "done"]
    /\ messagesByMode' = AddMessage(messagesByMode, send.mode, "answer")
    /\ isLoading' = FALSE
    /\ UNCHANGED <<activeMode, vectorStore, qaDocument, isProcessingFile, fileProcessingProgress,
                   uploads, instances>>
    /\ UNCHANGED <<storeVars, voiceVars>>

\* the call that produces the answer is rejected
SendAnswerFailed ==
    /\ send.pc = "answering"
    /\ send' = [send EXCEPT !.pc = "failed"]
    /\ SendCatch(messagesByMode)
    /\ UNCHANGED <<activeMode, vectorStore, qaDocument, isProcessingFile, fileProcessingProgress,
                   uploads, instances>>
    /\ UNCHANGED <<storeVars, voiceVars>>

\* ------------------------------------------------------------------------
\* Specification
\* ------------------------------------------------------------------------

Init ==
    /\ store = <<>>
    /\ callNo = 0
    /\ pc = "idle"
    /\ chunks = <<>>
    /\ i = 0
    /\ embeddingFn = "constant"
    /\ embedCalls = <<>>
    /\ onProgress = FALSE
    /\ progress = <<>>
    /\ progressStoreLen = <<>>
    /\ replaced = FALSE
    /\ searches = [s \in Searchers |-> IdleSearch]
    /\ call = NoCall
    /\ ret = NotReturned
    /\ loop = LoopIdle
    /\ ChatInit
    /\ VoiceInit

Next ==
    \/ \E text \in Texts, fn \in EmbeddingFns, cb \in BOOLEAN : Create(text, fn, cb)
    \/ \E j \in 1..Len(embedCalls) : EmbedFulfil(j)
    \/ \E j \in 1..Len(embedCalls) : EmbedReject(j)
    \/ BatchDone
    \/ BatchFailed

Spec == Init /\ [][Next]_vars

\* the entries create leaves in the store when it returns
BuiltStore(text, fn) ==
    [k \in 1..Len(chunkTextDefaults[text]) |->
        [chunk |-> chunkTextDefaults[text][k],
         embedding |-> Embed(fn, chunkTextDefaults[text][k])]]

\* The instance as a create(text, fn) that returned leaves it, no search
\* made yet.
AfterCreate(text, fn) ==
    /\ store = BuiltStore(text, fn)
    /\ callNo = 1
    /\ pc = "returned"
    /\ chunks = chunkTextDefaults[text]
    /\ i = batchSize * ((Len(chunkTextDefaults[text]) + batchSize - 1) \div batchSize)
    /\ embeddingFn = fn
    /\ embedCalls = [k \in 1..Len(chunkTextDefaults[text]) |->
                        Fulfilled(Embed(fn, chunkTextDefaults[text][k]))]
    /\ onProgress = FALSE
    /\ progress = <<>>
    /\ progressStoreLen = <<>>
    /\ replaced = FALSE
    /\ searches = [s \in Searchers |-> IdleSearch]
    /\ call = NoCall
    /\ ret = NotReturned
    /\ loop = LoopIdle
    /\ ChatInit
    /\ VoiceInit

\* Searches on an instance that is fresh or that a create has built; no
\* create runs while they do.  The callers hand search the embedding
\* function the store was built with, as handleFileUpload and the chat do.
InitSearch ==
    \/ Init
    \/ \E text \in Texts, fn \in EmbeddingFns : AfterCreate(text, fn)

NextSearch ==
    \/ \E s \in Searchers, query \in Queries, topK \in TopKs :
           Search(s, query, embeddingFn, topK)
    \/ \E s \in Searchers : SearchResume(s)
    \/ \E s \in Searchers : SearchReject(s)

SearchSpec == InitSearch /\ [][NextSearch]_vars

\* the text of the end-to-end scenario: 2400 characters
ScenarioText == MkText(3)

\* the texts handed to create while searches run: the empty text, the
\* scenario's, and one of two batches
InterleavedTexts == {MkText(0), ScenarioText, MkText(batchSize + 2)}

\* a query that "byLetter" embeds as the one-hot vector of index 1: "b"
ScenarioQuery == <<[c |-> "b", n |-> 1]>>

\* Creates and a search on one instance, the search starting and resuming
\* at any point of a create: before it, at any of its awaits, and after
\* it.  create is given a progress callback and the one-hot embedding
\* function, and search the same function.
NextInterleaved ==
    \/ \E text \in InterleavedTexts : Create(text, "byLetter", TRUE)
    \/ \E j \in 1..Len(embedCalls) : EmbedFulfil(j)
    \/ \E j \in 1..Len(embedCalls) : EmbedReject(j)
    \/ BatchDone
    \/ BatchFailed
    \/ \E topK \in TopKs : Search("s1", ScenarioQuery, "byLetter", topK)
    \/ SearchResume("s1")
    \/ SearchReject("s1")

InterleavedSpec == Init /\ [][NextInterleaved]_vars

\* the texts handed to create: without chunks, of one batch, of two batches
TerminationTexts == {MkText(0), MkText(2), MkText(batchSize + 1)}

\* Either one call of chunkText on any text with any overlap < chunkSize,
\* or creates on a fresh instance, chunkText run one loop iteration at a
\* time.
InitTermination ==
    /\ store = <<>>
    /\ callNo = 0
    /\ pc = "idle"
    /\ chunks = <<>>
    /\ i = 0
    /\ embeddingFn = "constant"
    /\ embedCalls = <<>>
    /\ onProgress = FALSE
    /\ progress = <<>>
    /\ progressStoreLen = <<>>
    /\ replaced = FALSE
    /\ searches = [s \in Searchers |-> IdleSearch]
    /\ call = NoCall
    /\ ret = NotReturned
    /\ loop \in {LoopIdle} \cup
                {LoopEntered("call", Encode(c.plain), c.chunkSize, c.overlap) :
                     c \in ChunkTextCalls}
    /\ ChatInit
    /\ VoiceInit

NextTermination ==
    \/ ChunkStep
    \/ \E text \in TerminationTexts : CreateEnter(text)
    \/ CreateChunked
    \/ EmbedSettle
    \/ BatchDone
    \/ BatchFailed

\* Synchronous code runs on (ChunkStep, CreateChunked); every embedding
\* call settles (EmbedSettle); and the continuation of a settled await is
\* run by the job queue (BatchDone, BatchFailed).
TerminationSpec ==
    /\ InitTermination
    /\ [][NextTermination]_vars
    /\ WF_vars(ChunkStep)
    /\ WF_vars(CreateChunked)
    /\ WF_vars(EmbedSettle)
    /\ WF_vars(BatchDone)
    /\ WF_vars(BatchFailed)

\* The chat with documents: two uploads, which may overlap, one message
\* sent, and one of the modes KnowledgeBase, QA and Summarize selected at
\* any point.
NextChat ==
    \/ \E newMode \in Modes \ {"Quiz"} : SelectMode(newMode)
    \/ \E u \in Uploads, file \in Files : UploadStart(u, file)
    \/ \E u \in Uploads : UploadExtracted(u)
    \/ \E u \in Uploads : UploadExtractRejected(u)
    \/ \E u \in Uploads : UploadBatchDone(u)
    \/ \E u \in Uploads : UploadBatchFailed(u)
    \/ \E u \in Uploads : UploadOverviewDone(u)
    \/ \E u \in Uploads : UploadOverviewFailed(u)
    \/ SendMessage(ScenarioQuery)
    \/ SendSearchDone
    \/ SendSearchFailed
    \/ SendAnswerDone
    \/ SendAnswerFailed

ChatSpec == Init /\ [][NextChat]_vars

\* the files of the uploads in any mode: without text, and of two batches
BusyFiles == {MkText(0), MkText(batchSize + 1)}

\* The chat in any mode: two uploads, which may overlap, of a document or
\* of a file for a quiz, one message sent, and any mode selected at any
\* point.
NextBusy ==
    \/ \E newMode \in Modes : SelectMode(newMode)
    \/ \E u \in Uploads, file \in BusyFiles : UploadStart(u, file)
    \/ \E u \in Uploads : QuizExtracted(u)
    \/ \E u \in Uploads : QuizExtractRejected(u)
    \/ \E u \in Uploads : QuizGenerated(u)
    \/ \E u \in Uploads : QuizFailed(u)
    \/ \E u \in Uploads : UploadExtracted(u)
    \/ \E u \in Uploads : UploadExtractRejected(u)
    \/ \E u \in Uploads : UploadBatchDone(u)
    \/ \E u \in Uploads : UploadBatchFailed(u)
    \/ \E u \in Uploads : UploadOverviewDone(u)
    \/ \E u \in Uploads : UploadOverviewFailed(u)
    \/ SendMessage(ScenarioQuery)
    \/ SendSearchDone
    \/ SendSearchFailed
    \/ SendAnswerDone
    \/ SendAnswerFailed

BusySpec == Init /\ [][NextBusy]_vars

\* The voice assistant, where every utterance handed to speech synthesis
\* ends or errors in the end.
VoiceSpec ==
    Init /\ [][NextVoice]_vars /\ WF_vars(UtteranceEnd \/ UtteranceError)

\* One call of chunkText or of cosineSimilarity, on any of the inputs.
InitPure ==
    /\ store = <<>>
    /\ callNo = 0
    /\ pc = "idle"
    /\ chunks = <<>>
    /\ i = 0
    /\ embeddingFn = "constant"
    /\ embedCalls = <<>>
    /\ onProgress = FALSE
    /\ progress = <<>>
    /\ progressStoreLen = <<>>
    /\ replaced = FALSE
    /\ searches = [s \in Searchers |-> IdleSearch]
    /\ call \in ChunkTextCalls \cup CosineSimilarityCalls
    /\ ret = NotReturned
    /\ loop = LoopIdle
    /\ ChatInit
    /\ VoiceInit

NextPure ==
    \/ CallChunkText
    \/ CallCosineSimilarity

PureSpec == InitPure /\ [][NextPure]_vars

TypeOK ==
    /\ conversationState
          \in {"idle", "listening", "processing", "speaking", "error"}
    /\ recognition \in {"inactive", "starting", "started", "stopping", "ending"}
    /\ toggles.made \in 0..MaxToggles
    /\ toggles.last \in {"none", "start", "stop", "cancel"}
    /\ Len(responses) <= MaxToggles
    /\ \A k \in 1..Len(responses) : responses[k].cancelled \in BOOLEAN
    /\ callNo \in 0..MaxCreates
    /\ pc \in {"idle", "awaiting", "returned", "threw"}
    /\ i \in Nat
    /\ onProgress \in BOOLEAN
    /\ replaced \in BOOLEAN
    /\ embeddingFn \in EmbeddingFns
    /\ Len(embedCalls) = Len(chunks)
    /\ Len(progress) = Len(progressStoreLen)
    /\ \A s \in Searchers :
          /\ searches[s].pc \in {"idle", "awaiting", "returned", "threw"}
          /\ searches[s].calls \in 0..1
          /\ searches[s].topK \in TopKs
          /\ Len(searches[s].result) = Len(searches[s].top)
    /\ call.op \in {"none", "chunkText", "cosineSimilarity"}
    /\ ret.done \in BOOLEAN
    /\ loop.pc \in {"idle", "running", "done"}
    /\ loop.caller \in {"none", "call", "create"}
    /\ loop.offset \in Nat
    /\ activeMode \in Modes
    /\ vectorStore \in Uploads \cup {NoInstance}
    /\ qaDocument.store \in Uploads \cup {NoInstance}
    /\ isProcessingFile \in BOOLEAN
    /\ fileProcessingProgress.set \in BOOLEAN
    /\ fileProcessingProgress.percentage \in 0..100
    /\ isLoading \in BOOLEAN
    /\ \A u \in Uploads :
          /\ uploads[u].pc \in {"idle", "quizExtracting", "quizGenerating",
                                "extracting", "creating", "overview", "done",
                                "failed"}
          /\ uploads[u].mode \in Modes
          /\ uploads[u].inst \in Uploads \cup {NoInstance}
          /\ Len(instances[u].origin) = Len(instances[u].store)
    /\ send.pc \in {"idle", "searching", "answering", "done", "failed"}

\* ------------------------------------------------------------------------
\* Properties of create
\* ------------------------------------------------------------------------

\* the calls of the latest create that are in the given state
CallsIn(st) == {j \in 1..Len(embedCalls) : embedCalls[j].st = st}

\* 0-based number of the batch chunks[j] belongs to
BatchOf(j) == (j - 1) \div batchSize

\* C1 (as claimed): once create has rejected because an embedding call
\* rejected, in whichever batch, the store is empty, so that a following
\* search returns [].
C1_FailedCreateLeavesStoreEmpty ==
    CreatePromise(pc) = "rejected" => store = <<>>

\* C2: create rejects whenever an embedding call it issued rejects.  As soon
\* as one of its calls is rejected, create has rejected or is suspended with
\* the rejection as the only way to resume; it never resumes normally and
\* never returns.
C2_RejectionPropagates ==
    CallsIn("rejected") # {} =>
        \/ CreatePromise(pc) = "rejected"
        \/ /\ CreatePromise(pc) = "pending"
           /\ ENABLED BatchFailed
           /\ ~ ENABLED BatchDone

\* a later batch has failed at a chunk that is not its first, with other
\* calls of the batch still outstanding
C2_Witness ==
    /\ CreatePromise(pc) = "rejected"
    /\ i = batchSize
    /\ Len(embedCalls) >= i + 3
    /\ embedCalls[i + 3].st = "rejected"
    /\ embedCalls[i + 1].st = "pending"
    /\ embedCalls[i + 2].st = "fulfilled"

\* C3: after a create that returned, the store holds one entry per chunk of
\* the chunker's output, in the chunker's order.
C3_StoreMatchesChunks ==
    CreatePromise(pc) = "fulfilled" =>
        /\ Len(store) = Len(chunks)
        /\ \A k \in 1..Len(chunks) : store[k].chunk = chunks[k]

\* a create over 7 chunks (not a multiple of 5) has returned
C3_Witness ==
    /\ CreatePromise(pc) = "fulfilled"
    /\ Len(chunks) = batchSize + 2
    /\ Len(store) = batchSize + 2
    /\ store[1].chunk # store[2].chunk

\* the entries a create that returned leaves in the store
EntriesOfLatestCreate ==
    [k \in 1..Len(chunks) |->
        [chunk |-> chunks[k], embedding |-> embedCalls[k].val]]

\* C4: create is destructive.  While and after a create that follows an
\* earlier one, the store holds entries of the latest create only, and once
\* it has returned the store is exactly the latest create's entries.
C4_CreateReplaces ==
    callNo >= 2 =>
        /\ Len(store) <= Len(chunks)
        /\ \A k \in 1..Len(store) : store[k] = EntriesOfLatestCreate[k]
        /\ CreatePromise(pc) = "fulfilled" => store = EntriesOfLatestCreate

\* a second create has returned with a store shorter than the one the
\* first create had built
C4_Witness ==
    /\ callNo = 2
    /\ replaced
    /\ CreatePromise(pc) = "fulfilled"
    /\ Len(store) = 2

\* C5: at every moment at most batchSize (5) embedding calls of a create
\* are unsettled.
C5_BoundedInFlight == Cardinality(CallsIn("pending")) <= 5

\* the five calls of a second batch are all in flight
C5_Witness ==
    /\ i = batchSize
    /\ Cardinality(CallsIn("pending")) = 5

\* C6: batches are strictly sequential.  When the call for a chunk has been
\* issued, every call of every earlier batch has settled.
C6_SequentialBatches ==
    \A j \in 1..Len(embedCalls) :
        embedCalls[j].st # "unissued" =>
            \A k \in 1..Len(embedCalls) :
                BatchOf(k) < BatchOf(j) =>
                    embedCalls[k].st \in {"fulfilled", "rejected"}

\* the third batch is in flight
C6_Witness ==
    /\ i = 2 * batchSize
    /\ CallsIn("pending") # {}
    /\ CallsIn("unissued") = {}

\* C7: after a create that returned, entry k of the store carries the vector
\* that the embedding call made for chunk k was fulfilled with.
C7_EmbeddingPairedWithChunk ==
    CreatePromise(pc) = "fulfilled" =>
        \A k \in 1..Len(store) :
            /\ k <= Len(embedCalls)
            /\ embedCalls[k].st = "fulfilled"
            /\ store[k].embedding = embedCalls[k].val

\* a create whose chunks have different embeddings has returned
C7_Witness ==
    /\ CreatePromise(pc) = "fulfilled"
    /\ Len(store) > batchSize
    /\ store[1].embedding # store[2].embedding
    /\ store[batchSize].embedding # store[batchSize + 1].embedding

\* C8: over a create that returned and had a callback, onProgress was called
\* ceil(N / 5) times, the percentage never went down and the last one is 100.
C8_ProgressMonotone ==
    (CreatePromise(pc) = "fulfilled" /\ onProgress) =>
        /\ Len(progress) = (Len(chunks) + batchSize - 1) \div batchSize
        /\ \A k \in 1..(Len(progress) - 1) :
              progress[k].percentage <= progress[k + 1].percentage
        /\ progress # <<>> => progress[Len(progress)].percentage = 100

\* three batches were reported, at 45, 91 and 100 percent
C8_Witness ==
    /\ CreatePromise(pc) = "fulfilled"
    /\ Len(progress) = 3
    /\ progress[1].percentage = 45
    /\ progress[2].percentage = 91
    /\ progress[3].percentage = 100

\* C9: onProgress is invoked once per completed batch, after the batch has
\* been pushed: invocation b (1-based) reports P = min(5b, N), the store
\* holds P entries at that moment, and the percentage is the integer nearest
\* to 100 P / N (a tie going up), within 0..100.
C9_ProgressPerBatch ==
    /\ Len(progress) = IF onProgress THEN i \div batchSize ELSE 0
    /\ \A b \in 1..Len(progress) :
        LET P == IF 5 * b < Len(chunks) THEN 5 * b ELSE Len(chunks)
            pct == progress[b].percentage
        IN  /\ progress[b].processedCount = P
            /\ progress[b].total = Len(chunks)
            /\ progressStoreLen[b] = P
            /\ pct \in 0..100
            /\ 2 * pct * Len(chunks) - Len(chunks) <= 200 * P
            /\ 200 * P < 2 * pct * Len(chunks) + Len(chunks)

\* the first batch of 8 chunks was reported at 63 percent (62.5 rounded up)
\* and create is suspended on the second batch
C9_Witness ==
    /\ CreatePromise(pc) = "pending"
    /\ Len(chunks) = 8
    /\ Len(progress) = 1
    /\ progress[1].percentage = 63
    /\ progressStoreLen[1] = 5

\* C10: onProgress is not invoked once the create that received it has
\* settled.
C10_NoProgressAfterSettle ==
    [][(CreatePromise(pc) \in {"fulfilled", "rejected"} /\ callNo' = callNo)
          => progress' = progress]_vars

\* a create with a callback has rejected in its second batch while calls of
\* that batch are still outstanding
C10_Witness ==
    /\ CreatePromise(pc) = "rejected"
    /\ onProgress
    /\ Len(progress) = 1
    /\ CallsIn("pending") # {}
    /\ CallsIn("fulfilled") # {}

\* ------------------------------------------------------------------------
\* Properties of search
\* ------------------------------------------------------------------------

\* the scored entries of the store a search call started on, in store order
ScoredEntries(slot) == Similarities(slot.seen, Embed(slot.fn, slot.query))

\* number of positions of items that hold x
CountIn(items, x) == Cardinality({k \in 1..Len(items) : items[k] = x})

\* 1-based place of entry j when the entries are ordered by descending
\* similarity and, among equal similarities, by position in the store
RankIn(all, j) ==
    1 + Cardinality({k \in 1..Len(all) :
            \/ SimilarityCompare(all[k].similarity, all[j].similarity) > 0
            \/ /\ SimilarityCompare(all[k].similarity, all[j].similarity) = 0
               /\ k < j})

\* what the search call of a slot returns when no other call runs
AloneResult(slot) ==
    ChunksOf(SliceTopK(ArraySort(ScoredEntries(slot)), slot.topK))

\* C11: a search on an empty store, whether the instance is fresh or was
\* built from a text without chunks, returns [] and never calls the
\* embedding function.
C11_EmptyStoreNoEmbeddingCall ==
    \A s \in Searchers :
        (searches[s].pc # "idle" /\ searches[s].seen = <<>>) =>
            /\ searches[s].pc = "returned"
            /\ searches[s].result = <<>>
            /\ searches[s].calls = 0

\* both kinds of empty store have been searched: here the one a create over
\* the empty text left
C11_Witness ==
    /\ callNo = 1
    /\ pc = "returned"
    /\ chunks = <<>>
    /\ \E s \in Searchers :
          searches[s].pc = "returned" /\ searches[s].seen = <<>>

\* C12: a search on a non-empty store calls the embedding function exactly
\* once, whatever the size of the store and topK, whether it is still
\* suspended, has returned or has thrown.
C12_OneEmbeddingCallPerSearch ==
    \A s \in Searchers :
        (searches[s].pc # "idle" /\ searches[s].seen # <<>>) =>
            searches[s].calls = 1

\* two searches of different topK have returned on a store of more than two
\* batches
C12_Witness ==
    /\ Len(store) > 2 * batchSize
    /\ searches["s1"].pc = "returned"
    /\ searches["s2"].pc = "returned"
    /\ searches["s1"].topK = 1
    /\ searches["s2"].topK = MaxTopK
    /\ searches["s1"].calls = 1
    /\ searches["s2"].calls = 1

\* C13: a search on a non-empty store returns min(topK, store size) chunks:
\* the chunks of entries of the store, in descending order of similarity to
\* the query embedding, no entry left out having a higher similarity than
\* one returned.
C13_TopKByDescendingSimilarity ==
    \A s \in Searchers :
        (searches[s].pc = "returned" /\ searches[s].seen # <<>>) =>
            \A all \in {ScoredEntries(searches[s])} :
            \A top \in {searches[s].top} :
                /\ Len(searches[s].result) =
                       MathMin(searches[s].topK, Len(searches[s].seen))
                /\ searches[s].result = ChunksOf(top)
                /\ \A k \in 1..(Len(top) - 1) :
                      SimilarityCompare(top[k].similarity,
                                        top[k + 1].similarity) >= 0
                /\ \A k \in 1..Len(top) : CountIn(all, top[k]) >= CountIn(top, top[k])
                /\ \A j \in 1..Len(all) :
                      SimilarityCompare(all[j].similarity,
                                        top[Len(top)].similarity) > 0
                          => CountIn(top, all[j]) = CountIn(all, all[j])

\* a search has returned three chunks of strictly decreasing similarity out
\* of a larger store whose first entry is not the best
C13_Witness ==
    \E s \in Searchers :
        /\ searches[s].pc = "returned"
        /\ Len(searches[s].seen) > Len(searches[s].top)
        /\ Len(searches[s].top) = 3
        /\ SimilarityCompare(searches[s].top[1].similarity,
                             searches[s].top[2].similarity) > 0
        /\ SimilarityCompare(searches[s].top[2].similarity,
                             searches[s].top[3].similarity) > 0
        /\ searches[s].result[1] # searches[s].seen[1].chunk

\* C14: ties keep the order of the store.  The result is the store's
\* entries ordered by descending similarity and, among entries of identical
\* similarity, by position in the store, cut after topK: the entry of rank r
\* is the r-th chunk returned, also when entries tied with it are cut off.
C14_StableTieBreak ==
    \A s \in Searchers :
        (searches[s].pc = "returned" /\ searches[s].seen # <<>>) =>
            \A all \in {ScoredEntries(searches[s])} :
                \A j \in 1..Len(all) :
                    RankIn(all, j) <= MathMin(searches[s].topK, Len(all)) =>
                        /\ RankIn(all, j) <= Len(searches[s].result)
                        /\ searches[s].result[RankIn(all, j)] = all[j].chunk

\* a tie straddles the cut-off: an entry left out has the similarity of the
\* last chunk returned, and a different chunk text
C14_Witness ==
    \E s \in Searchers :
        /\ searches[s].pc = "returned"
        /\ Len(searches[s].top) >= 2
        /\ \E j \in 1..Len(searches[s].seen) :
              /\ RankIn(ScoredEntries(searches[s]), j) > Len(searches[s].top)
              /\ SimilarityCompare(
                     ScoredEntries(searches[s])[j].similarity,
                     searches[s].top[Len(searches[s].top)].similarity) = 0
              /\ \A k \in 1..Len(searches[s].result) :
                     searches[s].result[k] # searches[s].seen[j].chunk

\* C15: search does not change the store.  No step of a search call (its
\* start, which returns at once on an empty store; its resumption, which
\* ranks and returns; its failure on a rejected query embedding) changes
\* the sequence of entries, their order, chunks or embeddings.
C15_SearchLeavesStoreUnchanged ==
    [][(searches' # searches) => (store' = store)]_vars

\* on one store a search has returned entries in an order that is not the
\* store's and another has thrown, and the store is as both found it
C15_Witness ==
    /\ searches["s1"].pc = "returned"
    /\ searches["s2"].pc = "threw"
    /\ Len(searches["s1"].result) >= 2
    /\ searches["s1"].result[1] # store[1].chunk
    /\ searches["s1"].seen = store
    /\ searches["s2"].seen = store

\* C16: a search call that overlapped another one at its await returns what
\* it would return alone on the store it started on, whichever of the two
\* query embeddings completed first.
C16_ConcurrentSearchesIndependent ==
    \A s \in Searchers :
        (searches[s].pc = "returned" /\ searches[s].concurrent) =>
            searches[s].result = AloneResult(searches[s])

\* two overlapping searches of different queries have both returned, with
\* different results
C16_Witness ==
    /\ searches["s1"].pc = "returned"
    /\ searches["s2"].pc = "returned"
    /\ searches["s1"].concurrent
    /\ searches["s2"].concurrent
    /\ searches["s1"].query # searches["s2"].query
    /\ searches["s1"].result # <<>>
    /\ searches["s2"].result # <<>>
    /\ searches["s1"].result[1] # searches["s2"].result[1]

\* the case of C18 for the search call of a slot: at least three entries,
\* topK = 1, and the query embedding is the embedding of the third entry
ThirdEntryQueried(slot) ==
    /\ slot.pc = "returned"
    /\ Len(slot.seen) >= 3
    /\ slot.topK = 1
    /\ Embed(slot.fn, slot.query) = slot.seen[3].embedding

\* C18 (as claimed): with at least three entries and a query whose
\* embedding is identical to the embedding of entries[2], search with
\* topK = 1 returns exactly the chunk of entries[2].
C18_ThirdEntryReturned ==
    \A s \in Searchers :
        ThirdEntryQueried(searches[s]) =>
            searches[s].result = <<searches[s].seen[3].chunk>>

\* C18 (amended): in that case search returns exactly the chunk of
\* entries[2] provided entries[0] and entries[1] have a strictly smaller
\* similarity to the query than entries[2] and no later entry has a larger
\* one; otherwise it returns the chunk of the first entry of largest
\* similarity.
C18_ThirdEntryReturnedWhenStrictlyBest ==
    \A s \in Searchers :
        ThirdEntryQueried(searches[s]) =>
            \A all \in {ScoredEntries(searches[s])} :
                /\ (/\ \A j \in 1..2 :
                         SimilarityCompare(all[j].similarity,
                                           all[3].similarity) < 0
                    /\ \A j \in 4..Len(all) :
                         SimilarityCompare(all[j].similarity,
                                           all[3].similarity) <= 0)
                       => searches[s].result = <<searches[s].seen[3].chunk>>
                /\ \E j \in 1..Len(all) :
                      /\ RankIn(all, j) = 1
                      /\ searches[s].result = <<all[j].chunk>>

\* the third entry was queried and returned, ahead of two earlier entries
\* of other chunk texts and of later entries that have its embedding
C18_Witness ==
    \E s \in Searchers :
        /\ ThirdEntryQueried(searches[s])
        /\ Len(searches[s].seen) >= 6
        /\ searches[s].seen[6].embedding = searches[s].seen[3].embedding
        /\ searches[s].seen[1].chunk # searches[s].seen[3].chunk
        /\ searches[s].seen[2].chunk # searches[s].seen[3].chunk
        /\ searches[s].result = <<searches[s].seen[3].chunk>>

\* ------------------------------------------------------------------------
\* Properties of cosineSimilarity and chunkText
\* ------------------------------------------------------------------------

\* a vector with components, all of them 0
AllZero(vec) == Len(vec) > 0 /\ \A k \in 1..Len(vec) : vec[k] = 0

\* C17 (as claimed): cosineSimilarity of any vector and an all-zero vector,
\* in either argument position, is exactly 0 and never NaN.
C17_ZeroVectorGivesZero ==
    (call.op = "cosineSimilarity" /\ ret.done
        /\ (AllZero(call.vecA) \/ AllZero(call.vecB)))
    => ret.similarity = SimilarityZero

\* C17 (amended): cosineSimilarity is exactly 0, and not NaN, when vecA is
\* all-zero, and when vecB is all-zero and at least as long as vecA; in
\* particular for an all-zero vector on either side of a vector of the same
\* length.  (With an all-zero vecB shorter than a vecA that is not all-zero
\* it is NaN.)
C17_ZeroVectorGivesZeroWhenNotShorter ==
    (call.op = "cosineSimilarity" /\ ret.done
        /\ \/ AllZero(call.vecA)
           \/ AllZero(call.vecB) /\ Len(call.vecA) <= Len(call.vecB))
    => ret.similarity = SimilarityZero

\* cosineSimilarity has returned 0 for a vector that is not all-zero and an
\* all-zero vector of the same length
C17_Witness ==
    /\ call.op = "cosineSimilarity"
    /\ ret.done
    /\ Len(call.vecA) = Len(call.vecB)
    /\ ~ AllZero(call.vecA)
    /\ AllZero(call.vecB)
    /\ ret.similarity = SimilarityZero

\* C19: chunk k (0-based) is text[k * stride .. min(k * stride + chunkSize,
\* L)) with stride = chunkSize - overlap, for every text and every
\* chunkSize > overlap >= 0.
C19_ChunkWindows ==
    (call.op = "chunkText" /\ ret.done) =>
        \A k \in 0..(Len(ret.chunks) - 1) :
            ret.chunks[k + 1] =
                Encode(SubSeq(call.plain,
                    k * (call.chunkSize - call.overlap) + 1,
                    MathMin(k * (call.chunkSize - call.overlap) + call.chunkSize,
                            Len(call.plain))))

\* a text was cut with an overlap into three chunks or more, the last one
\* shorter than chunkSize
C19_Witness ==
    /\ call.op = "chunkText"
    /\ ret.done
    /\ call.overlap > 0
    /\ Len(ret.chunks) >= 3
    /\ StrLen(ret.chunks[Len(ret.chunks)]) < call.chunkSize
    /\ StrLen(ret.chunks[1]) = call.chunkSize

\* C20 (as claimed): for a text of length at most chunkSize the chunker
\* returns exactly one chunk, the whole text.
C20_ShortTextOneChunk ==
    (call.op = "chunkText" /\ ret.done /\ Len(call.plain) <= call.chunkSize)
    => ret.chunks = <<Encode(call.plain)>>

\* C20 (amended): for a text that is not empty and of length at most
\* chunkSize the chunker returns exactly one chunk, the whole text.  (For
\* the empty text it returns no chunk.)
C20_ShortNonEmptyTextOneChunk ==
    (call.op = "chunkText" /\ ret.done
        /\ 0 < Len(call.plain) /\ Len(call.plain) <= call.chunkSize)
    => ret.chunks = <<Encode(call.plain)>>

\* a text of exactly chunkSize characters, more than one, was chunked with
\* an overlap and came back as one chunk
C20_Witness ==
    /\ call.op = "chunkText"
    /\ ret.done
    /\ Len(call.plain) = call.chunkSize
    /\ call.chunkSize > 1
    /\ call.overlap > 0
    /\ ret.chunks = <<Encode(call.plain)>>

\* 0-based offset in the text at which chunk k (0-based) of the call starts
WindowStart(k) == k * (call.chunkSize - call.overlap)

\* offset in the text just past the end of chunk k (0-based) of the call
WindowEnd(k) == WindowStart(k) + StrLen(ret.chunks[k + 1])

\* ceil(a / b) for integers a >= 0 and b > 0
CeilDiv(a, b) == (a + b - 1) \div b

\* C21: every character index of the text is covered by a chunk that holds
\* the character of that index there; consecutive windows leave no gap and
\* the last window ends at the end of the text.
C21_ChunkCoverage ==
    (call.op = "chunkText" /\ ret.done) =>
        /\ \A p \in 1..Len(call.plain) :
              \E k \in 0..(Len(ret.chunks) - 1) :
                  /\ WindowStart(k) < p
                  /\ p <= WindowEnd(k)
                  /\ Decode(ret.chunks[k + 1])[p - WindowStart(k)] = call.plain[p]
        /\ \A k \in 0..(Len(ret.chunks) - 2) : WindowStart(k + 1) <= WindowEnd(k)
        /\ call.plain # <<>> =>
              /\ ret.chunks # <<>>
              /\ WindowEnd(Len(ret.chunks) - 1) = Len(call.plain)

\* a text was cut without overlap into three chunks or more, each window
\* starting where the one before ends, the last one partial
C21_Witness ==
    /\ call.op = "chunkText"
    /\ ret.done
    /\ call.overlap = 0
    /\ call.chunkSize > 1
    /\ Len(ret.chunks) >= 3
    /\ StrLen(ret.chunks[Len(ret.chunks)]) < call.chunkSize

\* C22: no chunk is empty, the last chunk ends at the end of the text and
\* no chunk before it does: the chunker stops at the first window that
\* reaches the end, also when the length is a multiple of the stride.
C22_NoEmptyNoTrailingChunk ==
    (call.op = "chunkText" /\ ret.done) =>
        /\ \A k \in 1..Len(ret.chunks) : ret.chunks[k] # <<>>
        /\ \A k \in 0..(Len(ret.chunks) - 2) : WindowEnd(k) < Len(call.plain)
        /\ ret.chunks # <<>> => WindowEnd(Len(ret.chunks) - 1) = Len(call.plain)

\* a text whose length is a multiple of the stride, and more than one
\* stride, was chunked
C22_Witness ==
    /\ call.op = "chunkText"
    /\ ret.done
    /\ Len(call.plain) > call.chunkSize
    /\ Len(call.plain) % (call.chunkSize - call.overlap) = 0
    /\ Len(ret.chunks) >= 2
    /\ ret.chunks[Len(ret.chunks)] # <<>>

\* C23 (as claimed): the number of chunks is ceil(max(0, L - overlap) /
\* (chunkSize - overlap)), and it is at least 1 for every non-empty text.
C23_ChunkCount ==
    (call.op = "chunkText" /\ ret.done) =>
        /\ Len(ret.chunks) =
               CeilDiv(IF Len(call.plain) > call.overlap
                       THEN Len(call.plain) - call.overlap ELSE 0,
                       call.chunkSize - call.overlap)
        /\ call.plain # <<>> => Len(ret.chunks) >= 1

\* C23 (amended): the number of chunks is ceil((L - overlap) / (chunkSize -
\* overlap)) for a text longer than the overlap, 1 for a non-empty text
\* that is not longer than the overlap, and 0 for the empty text; so it is
\* at least 1 for every non-empty text.
C23_ChunkCountAtLeastOne ==
    (call.op = "chunkText" /\ ret.done) =>
        /\ Len(call.plain) > call.overlap =>
              Len(ret.chunks) = CeilDiv(Len(call.plain) - call.overlap,
                                        call.chunkSize - call.overlap)
        /\ (0 < Len(call.plain) /\ Len(call.plain) <= call.overlap) =>
              Len(ret.chunks) = 1
        /\ call.plain = <<>> => Len(ret.chunks) = 0
        /\ call.plain # <<>> => Len(ret.chunks) >= 1

\* a text longer than the overlap was cut into three chunks or more, the
\* count being the rounded-up quotient and not the exact one
C23_Witness ==
    /\ call.op = "chunkText"
    /\ ret.done
    /\ call.overlap > 0
    /\ Len(ret.chunks) >= 3
    /\ (Len(call.plain) - call.overlap) % (call.chunkSize - call.overlap) # 0
    /\ Len(ret.chunks) = CeilDiv(Len(call.plain) - call.overlap,
                                 call.chunkSize - call.overlap)

\* ------------------------------------------------------------------------
\* Properties of create and search together
\* ------------------------------------------------------------------------

\* the vector that is 1 at index k (0-based) and 0 elsewhere
OneHot(k) == [d \in 1..Len(Letters) |-> IF d = k + 1 THEN 1 ELSE 0]

\* C24: the 2400-character text is cut into exactly 3 chunks, the windows
\* 0-1000, 800-1800 and 1600-2400; a create over it with the one-hot
\* embedding function leaves entry k with the one-hot vector of index k;
\* and a search made after that create with a query embedding one-hot at
\* index 1 and topK = 1 returns the text of chunk 1.
C24_EndToEndScenario ==
    /\ StrLen(ScenarioText) = 2400
    /\ chunkTextDefaults[ScenarioText] =
           <<StrSlice(ScenarioText, 0, 1000), StrSlice(ScenarioText, 800, 1800),
             StrSlice(ScenarioText, 1600, 2400)>>
    /\ (pc = "returned" /\ chunks = chunkTextDefaults[ScenarioText]) =>
           store = [k \in 1..3 |->
                       [chunk |-> chunks[k], embedding |-> OneHot(k - 1)]]
    /\ \A s \in Searchers :
           (/\ searches[s].pc = "returned"
            /\ searches[s].createNo = callNo
            /\ searches[s].createPc = "returned"
            /\ chunks = chunkTextDefaults[ScenarioText]
            /\ searches[s].topK = 1
            /\ Embed(searches[s].fn, searches[s].query) = OneHot(1))
           => searches[s].result = <<StrSlice(ScenarioText, 800, 1800)>>

\* the scenario has run: create over the 2400 characters returned, then a
\* search with topK = 1 was made and returned chunk 1
C24_Witness ==
    /\ pc = "returned"
    /\ Len(store) = 3
    /\ searches["s1"].pc = "returned"
    /\ searches["s1"].createNo = callNo
    /\ searches["s1"].createPc = "returned"
    /\ searches["s1"].topK = 1
    /\ searches["s1"].seen = store
    /\ searches["s1"].result = <<store[2].chunk>>

\* C25: a create over the empty text (the one text without chunks) has
\* returned, with the store empty, no embedding call and no onProgress
\* call made; and a search made after it returns [] without an embedding
\* call.
C25_EmptyTextCreate ==
    (callNo > 0 /\ chunks = <<>>) =>
        /\ CreatePromise(pc) = "fulfilled"
        /\ store = <<>>
        /\ embedCalls = <<>>
        /\ progress = <<>>
        /\ \A s \in Searchers :
              (searches[s].pc # "idle" /\ searches[s].createNo = callNo) =>
                  /\ searches[s].pc = "returned"
                  /\ searches[s].result = <<>>
                  /\ searches[s].calls = 0

\* a create over the empty text, given a callback, followed a create that
\* had filled the store, and a search was made after it
C25_Witness ==
    /\ callNo = 2
    /\ chunks = <<>>
    /\ replaced
    /\ onProgress
    /\ searches["s1"].pc = "returned"
    /\ searches["s1"].createNo = 2

\* C28: at every point where create is suspended or has settled, the store
\* holds the first store.length chunks of the call, in order, each with its
\* embedding, and store.length is a multiple of 5 or the number of chunks;
\* a search that starts at such a point finds such a store.
C28_OnlyWholeBatchesObservable ==
    /\ Len(store) <= Len(chunks)
    /\ Len(store) % batchSize = 0 \/ Len(store) = Len(chunks)
    /\ \A k \in 1..Len(store) :
          /\ store[k].chunk = chunks[k]
          /\ store[k].embedding = embedCalls[k].val
    /\ \A s \in Searchers :
          (searches[s].pc # "idle" /\ searches[s].createNo = callNo) =>
              /\ Len(searches[s].seen) <= Len(chunks)
              /\ \/ Len(searches[s].seen) % batchSize = 0
                 \/ Len(searches[s].seen) = Len(chunks)
              /\ \A k \in 1..Len(searches[s].seen) :
                    searches[s].seen[k].chunk = chunks[k]

\* a search started and returned chunks while a create over 7 chunks was
\* suspended in its second batch: it found the 5 entries of the first
C28_Witness ==
    /\ pc = "awaiting"
    /\ i = batchSize
    /\ Len(chunks) = batchSize + 2
    /\ searches["s1"].pc = "returned"
    /\ searches["s1"].createNo = callNo
    /\ searches["s1"].createPc = "awaiting"
    /\ Len(searches["s1"].seen) = batchSize
    /\ searches["s1"].result # <<>>

\* C26: create does not retry.  A call of the embedding function, once
\* made, is never made again for its chunk: within a create call a promise
\* that was issued is never unissued or replaced once settled.  When create
\* has returned every chunk has had its call, and no call is ever issued
\* for a chunk of a batch after the one that create is at, in particular
\* after a batch has failed.
C26_NoRetry ==
    [][/\ callNo' = callNo =>
              \A j \in 1..Len(embedCalls) :
                  /\ embedCalls[j].st # "unissued" =>
                        embedCalls'[j].st # "unissued"
                  /\ embedCalls[j].st \in {"fulfilled", "rejected"} =>
                        embedCalls'[j] = embedCalls[j]
       /\ pc' = "returned" =>
              \A j \in 1..Len(embedCalls') : embedCalls'[j].st = "fulfilled"
       /\ pc' = "threw" =>
              \A j \in 1..Len(embedCalls') :
                  j > i' + batchSize => embedCalls'[j].st = "unissued"
      ]_vars

\* the first of three batches failed with calls of the batch still
\* outstanding, and the chunks of the later batches have had no call
C26_Witness ==
    /\ CreatePromise(pc) = "rejected"
    /\ i = 0
    /\ Len(embedCalls) > 2 * batchSize
    /\ embedCalls[1].st = "pending"
    /\ embedCalls[2].st = "rejected"
    /\ \A j \in (batchSize + 1)..Len(embedCalls) : embedCalls[j].st = "unissued"

\* ------------------------------------------------------------------------
\* Termination
\* ------------------------------------------------------------------------

\* C27: a chunkText call with overlap < chunkSize that is in its loop leaves
\* it, having moved the window start forward at every iteration and with
\* the chunks of chunkText; create then runs on; and a create suspended at
\* an await returns or throws, every embedding call settling.
C27_Termination ==
    /\ [][loop' # loop /\ loop'.pc = "running" /\ loop.pc = "running" =>
              loop'.offset > loop.offset]_vars
    /\ [](loop.pc = "done" =>
              loop.pushed = chunkText(loop.text, loop.chunkSize, loop.overlap))
    /\ (loop.pc = "running") ~> (loop.pc = "done")
    /\ (loop.pc = "done" /\ loop.caller = "create") ~> (loop.pc = "idle")
    /\ (pc = "awaiting") ~> (pc \in {"returned", "threw"})

\* a create over two batches has returned, its chunkText call having run
\* through its loop
C27_Witness ==
    /\ pc = "returned"
    /\ loop.pc = "idle"
    /\ Len(chunks) > batchSize
    /\ Len(store) = Len(chunks)

\* ------------------------------------------------------------------------
\* Properties of useChat
\* ------------------------------------------------------------------------

\* the uploads whose create call on instance inst is in flight
CreatesInFlight(inst) ==
    {u \in Uploads : uploads[u].pc = "creating" /\ uploads[u].inst = inst}

\* the instances useChat has published
Published == {vectorStore, qaDocument.store} \ {NoInstance}

\* C29: no VectorStore instance has two create calls in flight, or more than
\* one create call ever; every upload that has constructed its instance has
\* called create on it once, and no other upload uses that instance; and
\* the entries of a published store were all pushed for one upload's
\* document and are chunks of it.
C29_OneCreatePerInstance ==
    /\ \A inst \in Uploads :
          /\ Cardinality(CreatesInFlight(inst)) <= 1
          /\ instances[inst].creates <= 1
    /\ \A u \in Uploads :
          uploads[u].inst # NoInstance =>
              /\ instances[uploads[u].inst].creates = 1
              /\ \A v \in Uploads \ {u} : uploads[v].inst # uploads[u].inst
    /\ \A inst \in Published :
          \E u \in Uploads :
              \A k \in 1..Len(instances[inst].store) :
                  /\ instances[inst].origin[k] = u
                  /\ instances[inst].store[k].chunk =
                         chunkTextDefaults[uploads[u].file][k]

\* two uploads overlapped: the second, made while the first was running,
\* has published its one-chunk document for Q&A, and the first is in the
\* second batch of its create on another document
C29_Witness ==
    /\ uploads[1].pc = "creating"
    /\ uploads[1].i = batchSize
    /\ uploads[2].pc = "done"
    /\ qaDocument.store = 2
    /\ uploads[1].file # uploads[2].file
    /\ Len(instances[1].store) = batchSize
    /\ Len(instances[2].store) = 1

\* the store create leaves for the document of the upload that constructed
\* instance inst
CompleteStoreOf(inst) ==
    {BuiltStore(uploads[u].file, EmbedContent) :
        u \in {v \in Uploads : uploads[v].inst = inst}}

\* C30: vectorStore and qaDocument change only when an upload whose create
\* has returned receives its document overview, and then to that upload's
\* instance; when an upload fails, both are as before and the error message
\* is appended to the list of the upload's mode; every published instance
\* holds the complete store of its document, and so does the instance
\* sendMessage has search run on, when search is called and when it ranks.
C30_PublishedOnlyWhenBuilt ==
    /\ [][(vectorStore' # vectorStore \/ qaDocument' # qaDocument) =>
             \E u \in Uploads :
                 /\ uploads[u].pc = "overview"
                 /\ uploads'[u].pc = "done"
                 /\ instances[uploads[u].inst].store =
                        BuiltStore(uploads[u].file, EmbedContent)
                 /\ IF uploads[u].mode = "KnowledgeBase"
                    THEN vectorStore' = uploads[u].inst /\ qaDocument' = qaDocument
                    ELSE qaDocument'.store = uploads[u].inst /\ vectorStore' = vectorStore
        ]_vars
    /\ [][\A u \in Uploads :
             (uploads[u].pc # "failed" /\ uploads'[u].pc = "failed") =>
                 /\ vectorStore' = vectorStore
                 /\ qaDocument' = qaDocument
                 /\ messagesByMode'[uploads[u].mode].list =
                        Append(messagesByMode[uploads[u].mode].list, "upload_error")
        ]_vars
    /\ [](\A inst \in Published : instances[inst].store \in CompleteStoreOf(inst))
    /\ [](send.inst # NoInstance =>
             /\ instances[send.inst].store \in CompleteStoreOf(send.inst)
             /\ send.pc \in {"answering", "done"} =>
                    send.seen \in CompleteStoreOf(send.inst))

\* the create of the second upload failed after its first batch, leaving a
\* store of 5 of 6 entries; the Knowledge Base still has the instance of the
\* first upload, and sendMessage had search rank its complete store
C30_Witness ==
    /\ vectorStore = 1
    /\ uploads[2].pc = "failed"
    /\ uploads[2].mode = "KnowledgeBase"
    /\ Len(instances[2].store) = batchSize
    /\ Len(uploads[2].chunks) = batchSize + 1
    /\ send.pc = "answering"
    /\ send.inst = 1
    /\ send.seen = instances[1].store

\* C31: a sendMessage call made in KnowledgeBase mode while no store is
\* published appends the user's message and an error message and settles
\* without a call of embedContent or of a completion service; and
\* getAnswerFromContext is called only by a call that has a store, in
\* KnowledgeBase or QA mode, and whose search returned at least one chunk:
\* after an empty search result the call is done with the fixed reply and
\* no completion call.
C31_NoStoreNoServiceCall ==
    /\ [][(send.pc = "idle" /\ send'.pc # "idle"
           /\ activeMode = "KnowledgeBase" /\ vectorStore = NoInstance) =>
              /\ send'.pc = "failed"
              /\ send'.embeds = 0
              /\ send'.completion = "none"
              /\ messagesByMode'["KnowledgeBase"].list =
                     messagesByMode["KnowledgeBase"].list \o <<"user", "send_error">>
        ]_vars
    /\ [][(send.pc = "searching" /\ send'.pc # "searching"
           /\ Len(send'.result) = 0 /\ send'.pc # "failed") =>
              /\ send'.pc = "done"
              /\ send'.completion = "none"
              /\ messagesByMode'[send.mode].list =
                     Append(messagesByMode[send.mode].list, "no_information")
        ]_vars
    /\ [](send.completion = "getAnswerFromContext" =>
              /\ send.mode \in {"KnowledgeBase", "QA"}
              /\ send.inst # NoInstance
              /\ Len(send.result) >= 1)
    /\ []((send.pc # "idle" /\ send.inst # NoInstance) =>
              send.completion \in {"none", "getAnswerFromContext"})
    /\ []((send.pc # "idle" /\ send.mode = "KnowledgeBase"
           /\ send.inst = NoInstance) =>
              /\ send.pc = "failed"
              /\ send.embeds = 0
              /\ send.completion = "none")

\* a message sent to the Knowledge Base, which has no store while Q&A has a
\* document, has been answered with the error message
C31_Witness ==
    /\ send.pc = "failed"
    /\ send.mode = "KnowledgeBase"
    /\ send.inst = NoInstance
    /\ vectorStore = NoInstance
    /\ qaDocument.store # NoInstance
    /\ ~ isLoading

\* the messages whose sender is 'ai'
AiKinds ==
    {"document_overview", "upload_error", "quiz", "quiz_error", "answer",
     "no_information", "send_error"}

\* the sendMessage call, numbered like the handleFileUpload calls
SendCall == 0

\* the handleFileUpload and sendMessage calls that have settled
Settled ==
    {u \in Uploads : uploads[u].pc \in {"done", "failed"}}
        \cup (IF send.pc \in {"done", "failed"} THEN {SendCall} ELSE {})

\* the messages a step appends to a list
Appended(before, after) ==
    IF Len(after) >= Len(before) /\ SubSeq(after, 1, Len(before)) = before
    THEN SubSeq(after, Len(before) + 1, Len(after))
    ELSE <<>>

\* the number of 'ai' messages in a list
CountAi(list) == Cardinality({k \in 1..Len(list) : list[k] \in AiKinds})

RECURSIVE SumOver(_, _)
SumOver(f, S) ==
    IF S = {} THEN 0
    ELSE LET x == CHOOSE y \in S : TRUE IN f[x] + SumOver(f, S \ {x})

\* C32: the step in which a handleFileUpload call settles leaves
\* isProcessingFile false and fileProcessingProgress null, and the step in
\* which a sendMessage call settles leaves isLoading false, whether the call
\* succeeded or failed; with no upload in flight the first two are released
\* and with no sendMessage in flight the third; and the 'ai' messages a step
\* appends are one for each call that settles in it, so one per call.
C32_BusyFlagsReleased ==
    /\ [][\A u \in Uploads :
             (u \notin Settled /\ uploads'[u].pc \in {"done", "failed"}) =>
                 /\ isProcessingFile' = FALSE
                 /\ fileProcessingProgress' = NoProgress
        ]_vars
    /\ [][(send.pc \notin {"done", "failed"} /\ send'.pc \in {"done", "failed"})
             => isLoading' = FALSE
        ]_vars
    /\ [][SumOver([m \in Modes |->
                      CountAi(Appended(messagesByMode[m].list,
                                       messagesByMode'[m].list))], Modes)
             = Cardinality(Settled' \ Settled)
        ]_vars
    /\ []((\A u \in Uploads : uploads[u].pc \in {"idle", "done", "failed"}) =>
              isProcessingFile = FALSE /\ fileProcessingProgress = NoProgress)
    /\ [](send.pc \in {"idle", "done", "failed"} => isLoading = FALSE)

\* an upload for a quiz has failed, an upload of a document for Q&A has
\* succeeded and a message has been answered: the flags are released
C32_Witness ==
    /\ uploads[1].pc = "failed"
    /\ uploads[1].mode = "Quiz"
    /\ uploads[2].pc = "done"
    /\ uploads[2].mode = "QA"
    /\ send.pc = "done"
    /\ ~ isProcessingFile
    /\ fileProcessingProgress = NoProgress
    /\ ~ isLoading

\* A step in which speak was called: processAndRespond appended the model's
\* words to the transcript.
SpeakCalled ==
    /\ Len(transcript') = Len(transcript) + 1
    /\ transcript'[Len(transcript')].speaker = "ai"

\* The text speak was called with in such a step: spokenText of lines
\* 195-197, the confirmation of line 160.
Spoken ==
    LET said == transcript'[Len(transcript')]
    IN  IF "sources" \in DOMAIN said /\ said.sources
        THEN said.text \o SourcesNote
        ELSE said.text

\* A step in which speak's queue handed a sentence after the first to speech
\* synthesis.
HandedNext ==
    /\ speechSynthesis'.sentences = speechSynthesis.sentences
    /\ Len(speechSynthesis'.handed) = Len(speechSynthesis.handed) + 1

\* C33: speak(text) with non-empty text sets the state to 'speaking' and
\* hands the sentences to speech synthesis one at a time and in their order,
\* the next one only when the one before it has ended or failed; the state is
\* 'idle' once the queue is exhausted, so that, every utterance ending or
\* failing in the end, a speaking conversation is idle again in the end;
\* speak of an empty text sets 'idle' at once.
C33_SpeakOneAtATime ==
    /\ [][(SpeakCalled /\ Utterances(Spoken) # <<>>) =>
             /\ conversationState' = "speaking"
             /\ speechSynthesis'.sentences = Utterances(Spoken)
             /\ speechSynthesis'.handed = <<Utterances(Spoken)[1]>>
        ]_vars
    /\ [](speechSynthesis.handed \o utteranceQueue = speechSynthesis.sentences)
    /\ [][HandedNext =>
             /\ Len(speechSynthesis.pending) = 1
             /\ speechSynthesis'.pending
                   = <<speechSynthesis.sentences[Len(speechSynthesis'.handed)]>>
        ]_vars
    /\ [][(Len(speechSynthesis'.pending) < Len(speechSynthesis.pending)
              /\ toggles' = toggles /\ utteranceQueue = <<>>) =>
             conversationState' = "idle"
        ]_vars
    /\ [][(SpeakCalled /\ Spoken = <<>>) =>
             /\ conversationState' = "idle"
             /\ UNCHANGED <<utteranceQueue, speechSynthesis>>
        ]_vars
    /\ (conversationState = "speaking") ~> (conversationState = "idle")

\* A step in which a call to the model that the user cancelled settles.
CancelledSettles ==
    \E k \in 1..Len(responses) :
        /\ responses[k].cancelled
        /\ responses' = Without(responses, k)

\* C34: after toggleConversation in 'processing' or 'speaking' the state
\* stays 'idle' and nothing is spoken until the user toggles again; a model
\* response still pending when the user cancelled neither moves the state to
\* 'speaking' nor adds to the transcript; recognition.start() is only called
\* where the state is 'idle' or 'error'.
C34_CancelStaysIdle ==
    /\ [][CancelledSettles =>
             /\ transcript' = transcript
             /\ conversationState' # "speaking"
             /\ speechSynthesis' = speechSynthesis
        ]_vars
    /\ [](toggles.last = "cancel" =>
             /\ conversationState = "idle"
             /\ speechSynthesis.pending = <<>>)
    /\ [][(toggles'.made # toggles.made /\ toggles'.last = "start") =>
             conversationState \in {"idle", "error"}
        ]_vars

====
